---- MODULE Spec2Model ----
(***************************************************************************)
(* DocuMind: the scope-aware symbol extractor (code_parser.py), the two    *)
(* flowchart synthesizers (diagram_generator.py, svg_generator.py) and the *)
(* language dispatch (app.py, project_scanner.py), as state machines.      *)
(*                                                                         *)
(* The extractor is modelled as the traversal it performs: the source is   *)
(* read statement by statement (one action per visit_* handler, the input  *)
(* statement drawn from small sets), the handlers' saved locals            *)
(* (prev_class, prev_function, ...) live in `stack`, and the program text  *)
(* read so far is kept in `source` with the lexical position of every      *)
(* statement, against which the extractor's lists are compared.            *)
(***************************************************************************)
EXTENDS Naturals, Integers, Sequences, FiniteSets, TLC

\* ------------------------------------------------------------------ bounds
\* Number of source lines (statements) a traversal reads, per specification.
MaxScopeLine == 4
MaxNestLine == 4
MaxEventLine == 4
MaxWarnLine == 6
MaxFlowLine == 4
MaxScenarioLine == 5
\* Number of calls of parse_code_auto a run makes.
MaxCalls == 3
\* Number of requests the server answers in a run.
MaxRequests == 2
\* Number of sources one CodeParser parses, and the lines of each source.
MaxParses == 3
MaxReuseLine == 1
MaxArchLine == 3
MaxCallLine == 8
MaxEdgeLine == 4

\* ------------------------------------------------------------------ state
VARIABLES
    pc,                   \* "visit" while CodeVisitor traverses, "done" after parse returned
    line,                 \* line number of the next statement of the source
    source,               \* the statements read so far, with their lexical position
    stack,                \* activations of visit_FunctionDef/ClassDef/If with their saved locals
    current_class,        \* CodeVisitor.current_class: <<>> (None) or <<class_info>>
    current_function,     \* CodeVisitor.current_function: NoFunction (None) or a qualified name
    nesting_level,        \* CodeVisitor.nesting_level
    inside_method,        \* CodeVisitor.inside_method
    inside_name_main,     \* CodeVisitor.inside_name_main
    functions,            \* CodeParser.functions
    classes,              \* CodeParser.classes
    global_vars,          \* CodeParser.global_vars
    local_vars,           \* CodeParser.local_vars
    execution_scope_vars, \* CodeParser.execution_scope_vars
    control_flow,         \* CodeParser.control_flow
    function_calls,       \* CodeParser.function_calls
    method_calls,         \* CodeParser.method_calls
    class_instantiations, \* CodeParser.class_instantiations
    global_declarations,  \* CodeParser.global_declarations, as the pairs <<function, name>>
    warnings,             \* CodeParser.warnings
    imports,              \* CodeParser.imports
    architecture,         \* statements of the text generate_architecture_diagram returned
    mermaid,              \* statements of the text generate_flowchart returned; <<>> before
    svg,                  \* what generate_svg_flowchart drew: kind "none" before
    calls,                \* the calls of parse_code_auto/_parse_code_auto, with their outcome
    responses,            \* the responses of the /api/parse and /api/parse-project handlers
    generation,           \* which list objects the CodeParser's attributes are bound to
    returned              \* the dictionaries parse returned, with the list objects they hold

parserVars == <<functions, classes, global_vars, local_vars, execution_scope_vars,
                control_flow, function_calls, method_calls, class_instantiations,
                global_declarations, warnings>>
visitorVars == <<stack, current_class, current_function, nesting_level,
                 inside_method, inside_name_main>>
diagramVars == <<mermaid, svg>>
requestVars == <<calls, responses>>
instanceVars == <<generation, returned>>
importVars == <<imports, architecture>>
vars == <<pc, line, source, parserVars, visitorVars, diagramVars, importVars, requestVars,
          instanceVars>>

\* None, for CodeVisitor.current_function
NoFunction == "<None>"

\* ---------------------------------------------------------------- helpers
Range(s) == {s[i] : i \in 1..Len(s)}

SelectIdx(s, Test(_)) == {i \in 1..Len(s) : Test(s[i])}

\* [v['name'] for v in lst]
NamesOf(lst) == {lst[i].name : i \in 1..Len(lst)}

\* ------------------------------------------------- lexical position (input)
\* The constructs of the source that enclose the statement being read, outermost
\* first: "FunctionDef", "ClassDef", "MainIf" (the body of a module-level
\* `if __name__ == "__main__"`), "MainElse" (its else branch).
LexKinds(stk) == [i \in 1..Len(stk) |-> IF stk[i].node = "If"
                                         THEN (IF stk[i].part = "body" THEN "MainIf" ELSE "MainElse")
                                         ELSE stk[i].node]

InsideFunction(stk) == \E i \in 1..Len(stk) : stk[i].node = "FunctionDef"
InsideClass(stk) == \E i \in 1..Len(stk) : stk[i].node = "ClassDef"
InsideMainBody(stk) == \E i \in 1..Len(stk) : stk[i].node = "If" /\ stk[i].part = "body"

\* Index of the innermost enclosing scope (function or class), 0 at module level.
InnermostScope(stk) ==
    LET S == {i \in 1..Len(stk) : stk[i].node \in {"FunctionDef", "ClassDef"}}
    IN IF S = {} THEN 0 ELSE CHOOSE i \in S : \A j \in S : j <= i

InnermostClass(stk) ==
    LET S == {i \in 1..Len(stk) : stk[i].node = "ClassDef"}
    IN IF S = {} THEN 0 ELSE CHOOSE i \in S : \A j \in S : j <= i

\* The scope class the spec gives a plain-name assignment at this position:
\* Local iff a function context is active, ClassVariable iff directly in a class
\* body and in no function or method, ExecutionScope iff at module level inside
\* the main guard, Global otherwise.
LexScopeClass(stk) ==
    IF InsideFunction(stk) THEN "Local"
    ELSE IF InsideClass(stk) THEN "ClassVariable"
    ELSE IF InsideMainBody(stk) THEN "ExecutionScope"
    ELSE "Global"

\* Qualified name of the function whose body holds position stk: the innermost
\* enclosing def, dotted with its class when that def stands directly in a class
\* body; NoFunction outside every function.
LexFunction(stk) ==
    LET F == {i \in 1..Len(stk) : stk[i].node = "FunctionDef"}
    IN IF F = {} THEN NoFunction
       ELSE LET i == CHOOSE k \in F : \A j \in F : j <= k
                outer == InnermostScope(SubSeq(stk, 1, i - 1))
            IN IF outer # 0 /\ stk[outer].node = "ClassDef"
               THEN stk[outer].name \o "." \o stk[i].name
               ELSE stk[i].name

\* Line of the definition that owns position stk (0: the module).
OwnerLine(stk) == IF InnermostScope(stk) = 0 THEN 0 ELSE stk[InnermostScope(stk)].line
OwnerKind(stk) == IF InnermostScope(stk) = 0 THEN "Module" ELSE stk[InnermostScope(stk)].node
OwnerClassLine(stk) == IF InnermostClass(stk) = 0 THEN 0 ELSE stk[InnermostClass(stk)].line

\* ------------------------------------------------------------------- Init
\* CodeParser.parse after `# Reset state` and CodeVisitor.__init__.
ParseInit ==
    /\ pc = "visit"
    /\ line = 1
    /\ source = <<>>
    /\ stack = <<>>
    /\ current_class = <<>>
    /\ current_function = NoFunction
    /\ nesting_level = 0
    /\ inside_method = FALSE
    /\ inside_name_main = FALSE
    /\ functions = <<>>
    /\ classes = <<>>
    /\ global_vars = <<>>
    /\ local_vars = <<>>
    /\ execution_scope_vars = <<>>
    /\ control_flow = <<>>
    /\ function_calls = <<>>
    /\ method_calls = <<>>
    /\ class_instantiations = <<>>
    /\ global_declarations = {}
    /\ warnings = <<>>
    /\ imports = <<>>
    /\ architecture = <<>>
    /\ mermaid = <<>>
    /\ svg = [kind |-> "none", nodes |-> <<>>, edges |-> <<>>]
    /\ calls = <<>>
    /\ responses = <<>>
    /\ generation = 1
    /\ returned = <<>>

\* ------------------------------------------------------- records the code builds
\* A control_flow entry; the fields a type does not carry keep these defaults.
FlowInfo(type, fn, ln) ==
    [type |-> type, function |-> fn, line |-> ln, has_else |-> FALSE,
     has_finally |-> FALSE, exceptions |-> <<>>, call_name |-> ""]

\* A frame of `stack`: the visit_* activation of a construct that is still open.
Frame(node, branch, ln, name) ==
    [node |-> node, part |-> "body", branch |-> branch, line |-> ln, name |-> name,
     prev_class |-> <<>>, prev_function |-> NoFunction, prev_inside_method |-> FALSE,
     prev_inside_name_main |-> FALSE, decorator_calls |-> <<>>]

\* What `source` keeps of a statement: its line and where it stands.
Stmt(kind, name, target, ln, stk) ==
    [stmt |-> kind, name |-> name, target |-> target, line |-> ln,
     lex |-> LexKinds(stk), scope |-> LexScopeClass(stk), function |-> LexFunction(stk),
     owner_kind |-> OwnerKind(stk), owner_line |-> OwnerLine(stk),
     class_line |-> OwnerClassLine(stk)]

\* A Call node of the source: callee `name`, or `obj.name`.
CallNode(form, obj, name, ln) == [form |-> form, obj |-> obj, name |-> name, line |-> ln]

Top == stack[Len(stack)]
Pop(stk) == SubSeq(stk, 1, Len(stk) - 1)

\* ------------------------------------------------------------- visit_Call
\* The four lists visit_Call appends to.
CallLists == [cf |-> control_flow, fc |-> function_calls, mc |-> method_calls,
              ci |-> class_instantiations]

\* Variant of CallStep that records an instantiation without its 'call'
\* entry in control_flow.
CallStep_SilentInstantiation(lists, caller, cls, c) ==
    IF caller = NoFunction THEN lists
    ELSE
      LET call_name == IF c.form = "name" THEN c.name ELSE c.obj \o "." \o c.name
          class_names == NamesOf(classes)
          event == [FlowInfo("call", caller, c.line) EXCEPT !.call_name = call_name]
          withEvent == [lists EXCEPT !.cf = Append(@, event)]
      IN IF c.form = "name"
         THEN IF c.name \in class_names
              THEN [lists EXCEPT !.ci = Append(@, [caller |-> caller, class_name |-> c.name,
                                                    line |-> c.line])]
              ELSE [withEvent EXCEPT !.fc = Append(@, [caller |-> caller, callee |-> c.name,
                                                        line |-> c.line])]
         ELSE IF c.obj = "self" /\ cls # <<>>
              THEN [withEvent EXCEPT !.mc = Append(@, [caller |-> caller,
                                                        class_name |-> cls[1].name,
                                                        method |-> c.name, line |-> c.line])]
              ELSE [withEvent EXCEPT !.fc = Append(@, [caller |-> caller, callee |-> call_name,
                                                        line |-> c.line])]

\* visit_Call on one Call node, with current_function = caller and
\* current_class = cls; returns the lists after it.
CallStep(lists, caller, cls, c) ==
    IF caller = NoFunction THEN lists
    ELSE
      LET call_name == IF c.form = "name" THEN c.name ELSE c.obj \o "." \o c.name
          class_names == NamesOf(classes)
          event == [FlowInfo("call", caller, c.line) EXCEPT !.call_name = call_name]
          withEvent == [lists EXCEPT !.cf = Append(@, event)]
      IN IF c.form = "name"
         THEN IF c.name \in class_names
              THEN [withEvent EXCEPT !.ci = Append(@, [caller |-> caller, class_name |-> c.name,
                                                        line |-> c.line])]
              ELSE [withEvent EXCEPT !.fc = Append(@, [caller |-> caller, callee |-> c.name,
                                                        line |-> c.line])]
         ELSE IF c.obj = "self" /\ cls # <<>>
              THEN [withEvent EXCEPT !.mc = Append(@, [caller |-> caller,
                                                        class_name |-> cls[1].name,
                                                        method |-> c.name, line |-> c.line])]
              ELSE [withEvent EXCEPT !.fc = Append(@, [caller |-> caller, callee |-> call_name,
                                                        line |-> c.line])]

\* visit_Call on the Call nodes `call_nodes`, in the order generic_visit meets them.
RECURSIVE CallSteps(_, _, _, _)
CallSteps(lists, caller, cls, call_nodes) ==
    IF call_nodes = <<>> THEN lists
    ELSE CallSteps(CallStep(lists, caller, cls, Head(call_nodes)), caller, cls, Tail(call_nodes))

SetCallLists(lists) ==
    /\ control_flow' = lists.cf
    /\ function_calls' = lists.fc
    /\ method_calls' = lists.mc
    /\ class_instantiations' = lists.ci

\* An expression statement `callee()`, `self.callee()` or `obj.callee()`.
visit_Call(form, obj, name) ==
    /\ pc = "visit"
    /\ SetCallLists(CallStep(CallLists, current_function, current_class,
                             CallNode(form, obj, name, line)))
    /\ source' = Append(source, Stmt("call", name, form, line, stack))
    /\ line' = line + 1
    /\ UNCHANGED <<pc, visitorVars, functions, classes, global_vars, local_vars,
                   execution_scope_vars, global_declarations, warnings>>

\* --------------------------------------- visit_FunctionDef / visit_AsyncFunctionDef
\* The handler up to the traversal of the body: func_info is filed, the context
\* is switched, and generic_visit walks node.args before node.body. In
\* ast.arguments the kw_defaults field precedes defaults, so with
\*     def name(a=x(),
\*              *, b=y()):
\* the call y() of the second header line is visited before x().
\* `decorated`: the definition carries `@deco()` on the line above `def`.
FunctionDefEnter(name, is_async, decorated, defaults) ==
    LET def_line == IF decorated THEN line + 1 ELSE line
        body_line == IF defaults THEN def_line + 2 ELSE def_line + 1
        is_nested == nesting_level > 0 \/ current_class # <<>>
        func_info == [name |-> name, line |-> def_line, is_async |-> is_async,
                      is_nested |-> is_nested]
        as_method == current_class # <<>>
        new_function == IF as_method THEN current_class[1].name \o "." \o name ELSE name
        new_class == IF as_method
                     THEN <<[current_class[1] EXCEPT !.methods = Append(@, func_info)]>>
                     ELSE current_class
        frame == [Frame("FunctionDef", IF as_method THEN "method" ELSE "function",
                        def_line, name)
                  EXCEPT !.prev_function = current_function,
                         !.prev_inside_method = inside_method,
                         !.decorator_calls = IF decorated
                                             THEN <<CallNode("name", "", "deco", line)>>
                                             ELSE <<>>]
        default_calls == IF defaults
                         THEN <<CallNode("name", "", "y", def_line + 1),
                                CallNode("name", "", "x", def_line)>>
                         ELSE <<>>
    IN /\ pc = "visit"
       /\ functions' = IF as_method THEN functions ELSE Append(functions, func_info)
       /\ current_class' = new_class
       /\ inside_method' = IF as_method THEN TRUE ELSE inside_method
       /\ current_function' = new_function
       /\ nesting_level' = nesting_level + 1
       /\ stack' = Append(stack, frame)
       /\ SetCallLists(CallSteps(CallLists, new_function, new_class, default_calls))
       /\ source' = Append(source, Stmt("def", name, "", def_line, stack))
       /\ line' = body_line
       /\ UNCHANGED <<pc, inside_name_main, classes, global_vars, local_vars,
                      execution_scope_vars, global_declarations, warnings>>

visit_FunctionDef(name, decorated, defaults) ==
    FunctionDefEnter(name, FALSE, decorated, defaults)

visit_AsyncFunctionDef(name, decorated, defaults) ==
    FunctionDefEnter(name, TRUE, decorated, defaults)

\* Variant of end_FunctionDef that leaves a method without restoring
\* inside_method.
end_FunctionDef_KeepFlag ==
    /\ pc = "visit"
    /\ stack # <<>>
    /\ Top.node = "FunctionDef"
    /\ SetCallLists(CallSteps(CallLists, current_function, current_class,
                              Top.decorator_calls))
    /\ nesting_level' = nesting_level - 1
    /\ current_function' = Top.prev_function
    /\ stack' = Pop(stack)
    /\ UNCHANGED <<pc, line, source, current_class, inside_method, inside_name_main,
                   functions, classes, global_vars, local_vars, execution_scope_vars,
                   global_declarations, warnings>>

\* The rest of the handler once the body is traversed: generic_visit walks
\* node.decorator_list (it follows body in FunctionDef._fields) while
\* current_function is still this function, then the context is restored.
end_FunctionDef ==
    /\ pc = "visit"
    /\ stack # <<>>
    /\ Top.node = "FunctionDef"
    /\ SetCallLists(CallSteps(CallLists, current_function, current_class,
                              Top.decorator_calls))
    /\ nesting_level' = nesting_level - 1
    /\ inside_method' = IF Top.branch = "method" THEN Top.prev_inside_method
                        ELSE inside_method
    /\ current_function' = Top.prev_function
    /\ stack' = Pop(stack)
    /\ UNCHANGED <<pc, line, source, current_class, inside_name_main, functions, classes,
                   global_vars, local_vars, execution_scope_vars, global_declarations,
                   warnings>>

\* ----------------------------------------------------------- visit_ClassDef
visit_ClassDef(name) ==
    LET class_info == [name |-> name, line |-> line, methods |-> <<>>,
                       class_variables |-> <<>>, instance_variables |-> <<>>]
    IN /\ pc = "visit"
       /\ stack' = Append(stack, [Frame("ClassDef", "class", line, name)
                                  EXCEPT !.prev_class = current_class])
       /\ current_class' = <<class_info>>
       /\ source' = Append(source, Stmt("class", name, "", line, stack))
       /\ line' = line + 1
       /\ UNCHANGED <<pc, current_function, nesting_level, inside_method,
                      inside_name_main, parserVars>>

end_ClassDef ==
    /\ pc = "visit"
    /\ stack # <<>>
    /\ Top.node = "ClassDef"
    /\ classes' = Append(classes, current_class[1])
    /\ current_class' = Top.prev_class
    /\ stack' = Pop(stack)
    /\ UNCHANGED <<pc, line, source, current_function, nesting_level, inside_method,
                   inside_name_main, functions, global_vars, local_vars,
                   execution_scope_vars, control_flow, function_calls, method_calls,
                   class_instantiations, global_declarations, warnings>>

\* An expression statement `outer(inner())`: visit_Call on the outer Call node,
\* whose generic_visit then meets the inner one, on the same line.
visit_CallInCall(outer, inner) ==
    /\ pc = "visit"
    /\ SetCallLists(CallSteps(CallLists, current_function, current_class,
                              <<CallNode("name", "", outer, line),
                                CallNode("name", "", inner, line)>>))
    /\ source' = source \o <<Stmt("call", outer, "name", line, stack),
                             Stmt("call", inner, "name", line, stack)>>
    /\ line' = line + 1
    /\ UNCHANGED <<pc, visitorVars, functions, classes, global_vars, local_vars,
                   execution_scope_vars, global_declarations, warnings>>

\* ------------------------------------------------ visit_Assign / visit_AnnAssign
\* Variant of BindName that appends every binding, without the per-list
\* duplicate checks.
BindName_Always(var_name) ==
    IF current_class # <<>> /\ ~inside_method
    THEN /\ current_class' =
              <<[current_class[1] EXCEPT !.class_variables =
                    Append(@, [name |-> var_name, line |-> line,
                               source |-> "class_variable"])]>>
         /\ UNCHANGED <<global_vars, execution_scope_vars, local_vars>>
    ELSE IF current_class = <<>> /\ current_function = NoFunction /\ nesting_level = 0
    THEN IF inside_name_main
         THEN /\ execution_scope_vars' =
                   Append(execution_scope_vars,
                          [name |-> var_name, line |-> line, source |-> "execution_scope"])
              /\ UNCHANGED <<current_class, global_vars, local_vars>>
         ELSE /\ global_vars' =
                   Append(global_vars,
                          [name |-> var_name, line |-> line, source |-> "global"])
              /\ UNCHANGED <<current_class, execution_scope_vars, local_vars>>
    ELSE IF current_function # NoFunction
    THEN /\ local_vars' =
              Append(local_vars,
                     [name |-> var_name, line |-> line, source |-> "local",
                      function |-> current_function, is_method |-> inside_method])
         /\ UNCHANGED <<current_class, global_vars, execution_scope_vars>>
    ELSE UNCHANGED <<current_class, global_vars, execution_scope_vars, local_vars>>

\* The target `name = ...` (ast.Name): the four-way classification both handlers
\* share, with the per-list duplicate checks.
BindName(var_name) ==
    IF current_class # <<>> /\ ~inside_method
    THEN /\ current_class' =
              IF var_name \in NamesOf(current_class[1].class_variables)
              THEN current_class
              ELSE <<[current_class[1] EXCEPT !.class_variables =
                         Append(@, [name |-> var_name, line |-> line,
                                    source |-> "class_variable"])]>>
         /\ UNCHANGED <<global_vars, execution_scope_vars, local_vars>>
    ELSE IF current_class = <<>> /\ current_function = NoFunction /\ nesting_level = 0
    THEN IF inside_name_main
         THEN /\ execution_scope_vars' =
                   IF var_name \in NamesOf(execution_scope_vars)
                   THEN execution_scope_vars
                   ELSE Append(execution_scope_vars,
                               [name |-> var_name, line |-> line,
                                source |-> "execution_scope"])
              /\ UNCHANGED <<current_class, global_vars, local_vars>>
         ELSE /\ global_vars' =
                   IF var_name \in NamesOf(global_vars)
                   THEN global_vars
                   ELSE Append(global_vars,
                               [name |-> var_name, line |-> line, source |-> "global"])
              /\ UNCHANGED <<current_class, execution_scope_vars, local_vars>>
    ELSE IF current_function # NoFunction
    THEN /\ local_vars' =
              IF \E i \in 1..Len(local_vars) :
                     /\ local_vars[i].name = var_name
                     /\ local_vars[i].function = current_function
              THEN local_vars
              ELSE Append(local_vars,
                          [name |-> var_name, line |-> line, source |-> "local",
                           function |-> current_function, is_method |-> inside_method])
         /\ UNCHANGED <<current_class, global_vars, execution_scope_vars>>
    ELSE UNCHANGED <<current_class, global_vars, execution_scope_vars, local_vars>>

\* The target `self.attr = ...` (ast.Attribute on the name self).
BindSelfAttr(attr) ==
    /\ current_class' =
         IF current_class # <<>> /\ attr \notin NamesOf(current_class[1].instance_variables)
         THEN <<[current_class[1] EXCEPT !.instance_variables =
                    Append(@, [name |-> attr, line |-> line,
                               source |-> "instance_variable"])]>>
         ELSE current_class
    /\ UNCHANGED <<global_vars, execution_scope_vars, local_vars>>

\* target: "name" for `x = ...`, "self" for `self.x = ...`; one target a statement.
AssignBody(kind, target, name) ==
    /\ pc = "visit"
    /\ IF target = "name" THEN BindName(name) ELSE BindSelfAttr(name)
    /\ source' = Append(source, Stmt(kind, name, target, line, stack))
    /\ line' = line + 1
    /\ UNCHANGED <<pc, stack, current_function, nesting_level, inside_method,
                   inside_name_main, functions, classes, control_flow, function_calls,
                   method_calls, class_instantiations, global_declarations, warnings>>

visit_Assign(target, name) == AssignBody("assign", target, name)

visit_AnnAssign(target, name) == AssignBody("annassign", target, name)

\* ------------------------------------------ visit_Import / visit_ImportFrom
\* A dotted module name is the sequence of its parts: <<"os", "path">> is
\* os.path, and <<>> is the empty name visit_ImportFrom stores for
\* `from . import name`.
ImportInfo(type, module, ln) == [type |-> type, module |-> module, line |-> ln]

\* `import module`
visit_Import(module) ==
    /\ pc = "visit"
    /\ imports' = Append(imports, ImportInfo("import", module, line))
    /\ source' = Append(source, Stmt("import", "", "", line, stack))
    /\ line' = line + 1
    /\ UNCHANGED <<pc, visitorVars, parserVars, architecture>>

\* `from module import name`
visit_ImportFrom(module) ==
    /\ pc = "visit"
    /\ imports' = Append(imports, ImportInfo("from_import", module, line))
    /\ source' = Append(source, Stmt("from_import", "", "", line, stack))
    /\ line' = line + 1
    /\ UNCHANGED <<pc, visitorVars, parserVars, architecture>>

\* ------------------------------------------------------------- visit_Global
visit_Global(name) ==
    /\ pc = "visit"
    /\ global_declarations' =
         IF current_function # NoFunction
         THEN global_declarations \cup {<<current_function, name>>}
         ELSE global_declarations
    /\ source' = Append(source, Stmt("global", name, "", line, stack))
    /\ line' = line + 1
    /\ UNCHANGED <<pc, visitorVars, functions, classes, global_vars, local_vars,
                   execution_scope_vars, control_flow, function_calls, method_calls,
                   class_instantiations, warnings>>

\* ----------------------------------------------------------------- visit_If
\* is_name_main: the test is `__name__ == "__main__"` (_is_name_main_check).
\* The guard branch stays open (a frame) while generic_visit walks the test, the
\* body and the orelse of the node; a regular `if` keeps nothing, so the
\* statements of its arms are simply the statements that follow.
visit_If(is_name_main, has_else) ==
    /\ pc = "visit"
    /\ IF is_name_main /\ current_function = NoFunction
       THEN /\ stack' = Append(stack, [Frame("If", "main", line, "")
                                       EXCEPT !.prev_inside_name_main = inside_name_main])
            /\ inside_name_main' = TRUE
            /\ UNCHANGED control_flow
       ELSE /\ control_flow' =
                 IF current_function # NoFunction
                 THEN Append(control_flow,
                             [FlowInfo("if", current_function, line)
                              EXCEPT !.has_else = has_else])
                 ELSE control_flow
            /\ UNCHANGED <<stack, inside_name_main>>
    /\ source' = Append(source, Stmt("if", "", "", line, stack))
    /\ line' = line + 1
    /\ UNCHANGED <<pc, current_class, current_function, nesting_level, inside_method,
                   functions, classes, global_vars, local_vars, execution_scope_vars,
                   function_calls, method_calls, class_instantiations,
                   global_declarations, warnings>>

\* generic_visit of the guard passes from node.body to node.orelse (`else:`).
else_If ==
    /\ pc = "visit"
    /\ stack # <<>>
    /\ Top.node = "If"
    /\ Top.part = "body"
    /\ stack' = [stack EXCEPT ![Len(stack)].part = "orelse"]
    /\ UNCHANGED <<pc, line, source, current_class, current_function, nesting_level,
                   inside_method, inside_name_main, parserVars>>

end_If ==
    /\ pc = "visit"
    /\ stack # <<>>
    /\ Top.node = "If"
    /\ inside_name_main' = Top.prev_inside_name_main
    /\ stack' = Pop(stack)
    /\ UNCHANGED <<pc, line, source, current_class, current_function, nesting_level,
                   inside_method, parserVars>>

\* ------------- visit_For / While / Try / With / Return / Break / Continue
\* Each appends its flow_info when a function is being visited.
FlowStmt(flow_info) ==
    /\ pc = "visit"
    /\ control_flow' = IF current_function # NoFunction
                       THEN Append(control_flow, flow_info)
                       ELSE control_flow
    /\ source' = Append(source, Stmt(flow_info.type, "", "", line, stack))
    /\ line' = line + 1
    /\ UNCHANGED <<pc, visitorVars, functions, classes, global_vars, local_vars,
                   execution_scope_vars, function_calls, method_calls,
                   class_instantiations, global_declarations, warnings>>

visit_For == FlowStmt(FlowInfo("for", current_function, line))

visit_While == FlowStmt(FlowInfo("while", current_function, line))

\* types: the exception types of the except clauses, in order; a try without
\* except clause gets the list ['Exception'] all the same.
visit_Try(types, has_finally) ==
    FlowStmt([FlowInfo("try", current_function, line)
              EXCEPT !.has_finally = has_finally,
                     !.exceptions = IF types = <<>> THEN <<"Exception">> ELSE types])

visit_With == FlowStmt(FlowInfo("with", current_function, line))

visit_Return == FlowStmt(FlowInfo("return", current_function, line))

visit_Break == FlowStmt(FlowInfo("break", current_function, line))

visit_Continue == FlowStmt(FlowInfo("continue", current_function, line))

\* --------------------------------------------------------- _detect_warnings
Warning(type, name, fn, ln, related) ==
    [type |-> type, name |-> name, function |-> fn, line |-> ln, related_line |-> related]

\* global_names = {v['name']: v for v in self.global_vars}: the last entry of a name.
GlobalNamed(name) ==
    LET S == {j \in 1..Len(global_vars) : global_vars[j].name = name}
    IN global_vars[CHOOSE j \in S : \A k \in S : k <= j]

\* warning_key = f'shadow_{func_name}_{var_name}'
WarningKey(func_name, var_name) == "shadow_" \o func_name \o "_" \o var_name

\* The loop over local_vars of lines 111-135, from entry i on, with the
\* warning_keys seen and the warnings appended so far.
RECURSIVE ShadowLoop(_, _, _)
ShadowLoop(i, warning_keys, acc) ==
    IF i > Len(local_vars) THEN acc
    ELSE LET local_var == local_vars[i]
             var_name == local_var.name
             func_name == local_var.function
             is_declared_global == <<func_name, var_name>> \in global_declarations
             warning_key == WarningKey(func_name, var_name)
         IN IF /\ var_name \in NamesOf(global_vars)
               /\ ~is_declared_global
               /\ warning_key \notin warning_keys
            THEN ShadowLoop(i + 1, warning_keys \cup {warning_key},
                            Append(acc, Warning("global_override", var_name, func_name,
                                                local_var.line,
                                                GlobalNamed(var_name).line)))
            ELSE ShadowLoop(i + 1, warning_keys, acc)

\* Lines 137-167: every entry of lst whose name an earlier entry carries gets a
\* warning that refers to the first entry of that name.
RECURSIVE DuplicateLoop(_, _, _, _)
DuplicateLoop(type, lst, i, acc) ==
    IF i > Len(lst) THEN acc
    ELSE LET S == {j \in 1..(i - 1) : lst[j].name = lst[i].name}
         IN IF S # {}
            THEN DuplicateLoop(type, lst, i + 1,
                               Append(acc, Warning(type, lst[i].name, "", lst[i].line,
                                                   lst[CHOOSE j \in S : \A k \in S : j <= k].line)))
            ELSE DuplicateLoop(type, lst, i + 1, acc)

\* Lines 169-188: local variables grouped by function, a warning for each entry
\* whose name and function an earlier entry carries.
RECURSIVE DuplicateLocalLoop(_, _)
DuplicateLocalLoop(i, acc) ==
    IF i > Len(local_vars) THEN acc
    ELSE LET S == {j \in 1..(i - 1) : /\ local_vars[j].name = local_vars[i].name
                                      /\ local_vars[j].function = local_vars[i].function}
         IN IF S # {}
            THEN DuplicateLocalLoop(i + 1,
                     Append(acc, Warning("duplicate_variable", local_vars[i].name,
                                         local_vars[i].function, local_vars[i].line,
                                         local_vars[CHOOSE j \in S : \A k \in S : j <= k].line)))
            ELSE DuplicateLocalLoop(i + 1, acc)

detect_warnings ==
    ShadowLoop(1, {}, <<>>)
    \o DuplicateLoop("duplicate_function", functions, 1, <<>>)
    \o DuplicateLoop("duplicate_class", classes, 1, <<>>)
    \o DuplicateLocalLoop(1, <<>>)

\* ---------------------------------------------------- CodeParser.parse, the end
\* visitor.visit(tree) has returned (every construct is closed); the warnings
\* are detected and the result dictionary is returned.
parse_return ==
    /\ pc = "visit"
    /\ stack = <<>>
    /\ warnings' = warnings \o detect_warnings
    /\ pc' = "done"
    /\ UNCHANGED <<line, source, visitorVars, functions, classes, global_vars, local_vars,
                   execution_scope_vars, control_flow, function_calls, method_calls,
                   class_instantiations, global_declarations>>

\* ================================================== flowchart synthesizers
\* sorted(items, key=lambda x: x.get('line', 0)): Python's sort is stable.
RECURSIVE InsertByLine(_, _)
InsertByLine(sorted, flow) ==
    IF sorted = <<>> THEN <<flow>>
    ELSE IF sorted[Len(sorted)].line <= flow.line THEN Append(sorted, flow)
    ELSE Append(InsertByLine(SubSeq(sorted, 1, Len(sorted) - 1), flow), sorted[Len(sorted)])

RECURSIVE SortByLine(_)
SortByLine(items) ==
    IF items = <<>> THEN <<>>
    ELSE InsertByLine(SortByLine(SubSeq(items, 1, Len(items) - 1)), items[Len(items)])

\* [cf for cf in self.control_flow if cf.get('function') == func_name]
FuncFlow(func_name) == SelectSeq(control_flow, LAMBDA cf : cf.function = func_name)

\* None, for current_node
NoNode == "<None>"

\* --------------------------- DiagramGenerator._generate_single_flowchart
\* A statement of the Mermaid text: `id(shape "text")` declares a node;
\* `from -->|label| to(shape "text")` draws an edge and, when a shape follows the
\* target, declares it. The style statements carry no structure and are left out.
NodeLine(id, shape, text) ==
    [stmt |-> "node", from |-> "", to |-> id, label |-> "", shape |-> shape, text |-> text]
EdgeLine(from, to, label, shape, text) ==
    [stmt |-> "edge", from |-> from, to |-> to, label |-> label, shape |-> shape,
     text |-> text]

Min(a, b) == IF a <= b THEN a ELSE b

\* _add_call_group_to_flowchart: [lines, last_node]
add_call_group_to_flowchart(lines, call_group, current_node, start_node_id) ==
    LET important == IF Len(call_group) > 4 THEN 4 ELSE Len(call_group)
        call_id(i) == "CALL" \o ToString(start_node_id + i)
        chain == [k \in 1..important |->
                     EdgeLine(IF k = 1 THEN current_node ELSE call_id(k - 2),
                              call_id(k - 1), "", "rect", "Call")]
        last == IF important = 0 THEN current_node ELSE call_id(important - 1)
        more_id == "CALL_MORE" \o ToString(start_node_id + important)
    IN IF Len(call_group) > 4
       THEN [lines |-> lines \o chain \o
                       <<EdgeLine(last, more_id, "", "rect",
                                  ToString(Len(call_group) - 4) \o " more calls")>>,
             last_node |-> more_id]
       ELSE [lines |-> lines \o chain, last_node |-> last]

\* Variant of FlushCalls that leaves the node counter where it was.
FlushCalls_KeepCounter(st) ==
    IF st.call_group = <<>> THEN st
    ELSE LET r == add_call_group_to_flowchart(st.lines, st.call_group, st.current_node,
                                              st.node_id)
         IN [st EXCEPT !.lines = r.lines,
                       !.current_node = r.last_node,
                       !.call_group = <<>>]

\* `if call_group:` flush of lines 1560-1563, on the loop state st.
FlushCalls(st) ==
    IF st.call_group = <<>> THEN st
    ELSE LET r == add_call_group_to_flowchart(st.lines, st.call_group, st.current_node,
                                              st.node_id)
         IN [st EXCEPT !.lines = r.lines,
                       !.current_node = r.last_node,
                       !.node_id = @ + Min(Len(st.call_group), 4)
                                     + (IF Len(st.call_group) > 4 THEN 1 ELSE 0),
                       !.call_group = <<>>]

\* The try branch, lines 1590-1647.
MermaidTry(st, flow) ==
    LET n == ToString(st.node_id)
        exceptions == IF Len(flow.exceptions) > 4
                      THEN SubSeq(flow.exceptions, 1, 3) \o <<"...">>
                      ELSE flow.exceptions
        end_try_id == "END_TRY" \o n
        try_id == "TRY" \o n
        finally_id == "FINALLY" \o n
        except_id(i) == IF exceptions[i] = "..." THEN "EXCEPT_MORE" \o n
                        ELSE "EXCEPT" \o ToString(i) \o "_" \o n
        handlers == [i \in 1..Len(exceptions) |->
                        EdgeLine(try_id, except_id(i), exceptions[i], "rect", "Except")]
        joins(target) == [i \in 1..Len(exceptions) |->
                             EdgeLine(except_id(i), target, "", "", "")]
        merge == IF exceptions # <<>>
                 THEN IF flow.has_finally
                      THEN <<EdgeLine(try_id, finally_id, "Success", "rect", "Finally")>>
                           \o joins(finally_id)
                           \o <<EdgeLine(finally_id, end_try_id, "", "rect", "Continue")>>
                      ELSE <<EdgeLine(try_id, end_try_id, "Success", "rect", "Continue")>>
                           \o joins(end_try_id)
                 ELSE IF flow.has_finally
                      THEN <<EdgeLine(try_id, finally_id, "", "rect", "Finally"),
                             EdgeLine(finally_id, end_try_id, "", "rect", "Continue")>>
                      ELSE <<EdgeLine(try_id, end_try_id, "", "rect", "Continue")>>
    IN [st EXCEPT !.lines = @ \o <<EdgeLine(st.current_node, try_id, "", "rect", "Try")>>
                            \o handlers \o merge,
                  !.current_node = end_try_id,
                  !.node_id = @ + 1]

\* One non-call entry, after the pending calls were flushed (lines 1566-1744).
MermaidFlow(st, flow) ==
    LET n == ToString(st.node_id)
        cur == st.current_node
    IN CASE flow.type = "with" ->
              [st EXCEPT !.lines = @ \o <<EdgeLine(cur, "WITH" \o n, "", "rect", "Enter"),
                                          EdgeLine("WITH" \o n, "WITH_EXIT" \o n, "", "rect",
                                                   "Exit")>>,
                         !.current_node = "WITH_EXIT" \o n,
                         !.node_id = @ + 1]
         [] flow.type = "try" -> MermaidTry(st, flow)
         [] flow.type = "if" ->
              [st EXCEPT !.lines = @ \o
                    <<EdgeLine(cur, "IF" \o n, "", "diamond", "condition"),
                      EdgeLine("IF" \o n, "TRUE" \o n, "True", "rect", "If Body")>>
                    \o (IF flow.has_else
                        THEN <<EdgeLine("IF" \o n, "FALSE" \o n, "False", "rect", "Else Body"),
                               EdgeLine("TRUE" \o n, "ENDIF" \o n, "", "rect", "Continue"),
                               EdgeLine("FALSE" \o n, "ENDIF" \o n, "", "", "")>>
                        ELSE <<EdgeLine("IF" \o n, "ENDIF" \o n, "False", "rect", "Continue"),
                               EdgeLine("TRUE" \o n, "ENDIF" \o n, "", "", "")>>),
                         !.current_node = "ENDIF" \o n,
                         !.node_id = @ + 1]
         [] flow.type = "for" ->
              [st EXCEPT !.lines = @ \o
                    <<EdgeLine(cur, "LOOP" \o n, "", "diamond", "for"),
                      EdgeLine("LOOP" \o n, "BODY" \o n, "Has items", "rect", "Loop Body"),
                      EdgeLine("LOOP" \o n, "ENDLOOP" \o n, "No items", "rect", "Continue"),
                      EdgeLine("BODY" \o n, "LOOP" \o n, "Loop back", "", "")>>,
                         !.current_node = "ENDLOOP" \o n,
                         !.node_id = @ + 1]
         [] flow.type = "while" ->
              [st EXCEPT !.lines = @ \o
                    <<EdgeLine(cur, "WHILE" \o n, "", "diamond", "while"),
                      EdgeLine("WHILE" \o n, "BODY" \o n, "True", "rect", "While Body"),
                      EdgeLine("WHILE" \o n, "ENDWHILE" \o n, "False", "rect", "Continue"),
                      EdgeLine("BODY" \o n, "WHILE" \o n, "Loop back", "", "")>>,
                         !.current_node = "ENDWHILE" \o n,
                         !.node_id = @ + 1]
         [] flow.type = "return" ->
              [st EXCEPT !.lines = @ \o
                    <<EdgeLine(cur, "RETURN" \o n, "", "stadium", "Return"),
                      EdgeLine("RETURN" \o n, "END", "", "stadium", "End")>>,
                         !.current_node = NoNode,
                         !.node_id = @ + 1,
                         !.broke = TRUE]
         [] flow.type = "break" ->
              [st EXCEPT !.lines = @ \o
                    <<EdgeLine(cur, "BREAK" \o n, "", "stadium", "Break"),
                      EdgeLine("BREAK" \o n, "END", "", "stadium", "End")>>,
                         !.current_node = NoNode,
                         !.node_id = @ + 1,
                         !.broke = TRUE]
         [] flow.type = "continue" ->
              [st EXCEPT !.lines = @ \o
                    <<EdgeLine(cur, "CONTINUE" \o n, "", "stadium", "Continue")>>,
                         !.current_node = "CONTINUE" \o n,
                         !.node_id = @ + 1]
         [] OTHER -> st

\* The body of `for flow in sorted(func_flow, ...)`, lines 1552-1744.
MermaidStep(st, flow) ==
    IF flow.type = "call"
    THEN [st EXCEPT !.call_group = Append(@, flow)]
    ELSE MermaidFlow(FlushCalls(st), flow)

\* The loop from entry i on; `break` leaves it.
RECURSIVE MermaidLoop(_, _, _)
MermaidLoop(st, flows, i) ==
    IF i > Len(flows) \/ st.broke THEN st
    ELSE MermaidLoop(MermaidStep(st, flows[i]), flows, i + 1)

\* _generate_single_flowchart from `start_id = "Start"` on: the statements of
\* the flowchart of a function whose entries are func_flow.
single_flowchart(func_flow) ==
    LET start == [lines |-> <<NodeLine("Start", "stadium", "Start")>>, node_id |-> 1,
                  current_node |-> "Start", call_group |-> <<>>, broke |-> FALSE]
        looped == MermaidLoop(start, SortByLine(func_flow), 1)
        rest == IF looped.call_group # <<>>
                THEN LET r == add_call_group_to_flowchart(looped.lines, looped.call_group,
                                                          looped.current_node, looped.node_id)
                     IN [looped EXCEPT !.lines = r.lines, !.current_node = r.last_node]
                ELSE looped
    IN IF rest.current_node # NoNode
       THEN Append(rest.lines, EdgeLine(rest.current_node, "END", "", "stadium", "End"))
       ELSE rest.lines

\* _generate_single_flowchart: the statements of the flowchart of func_name.
generate_single_flowchart(func_name) == single_flowchart(FuncFlow(func_name))

\* ------------------------------ SVGFlowchartGenerator._generate_function_svg
\* Layout constants
NODE_SPACING_Y == 80
BRANCH_SPACING_X == 200
NODE_WIDTH == 150
NODE_HEIGHT == 60
DECISION_WIDTH == 120
DECISION_HEIGHT == 80
\* x of the single column; y of the start node; y of the first node below it
CENTER_X == 400
START_Y == 50
FIRST_Y == 150
\* 'curvature' of a loop-back edge
LOOP_CURVATURE == -60

\* Variant of SvgNode that centres every node on the column of the chart.
SvgNode_Centred(id, type, text, x, y) ==
    [id |-> id, type |-> type, text |-> text, x |-> CENTER_X, y |-> y,
     width |-> IF type = "decision" THEN DECISION_WIDTH ELSE NODE_WIDTH,
     height |-> IF type = "decision" THEN DECISION_HEIGHT ELSE NODE_HEIGHT]

\* A node dict; the code gives decisions the DECISION_ size, all others NODE_.
SvgNode(id, type, text, x, y) ==
    [id |-> id, type |-> type, text |-> text, x |-> x, y |-> y,
     width |-> IF type = "decision" THEN DECISION_WIDTH ELSE NODE_WIDTH,
     height |-> IF type = "decision" THEN DECISION_HEIGHT ELSE NODE_HEIGHT]

\* An edge dict; "" stands for a None label and for a side key that is absent.
SvgEdge(from, to, label, type, from_side, to_side) ==
    [from |-> from, to |-> to, label |-> label, type |-> type,
     from_side |-> from_side, to_side |-> to_side,
     curvature |-> IF type = "curved" THEN LOOP_CURVATURE ELSE 0]

Straight(from, to) == SvgEdge(from, to, "", "straight", "", "")

\* call, lines 99-128
SvgCall(st) ==
    LET call_id == "call_" \o ToString(st.node_counter)
    IN [st EXCEPT !.nodes = Append(@, SvgNode(call_id, "process", "Call", CENTER_X,
                                              st.current_y)),
                  !.edges = Append(@, Straight(st.current_node_id, call_id)),
                  !.current_node_id = call_id,
                  !.current_y = @ + NODE_SPACING_Y,
                  !.node_counter = @ + 1]

\* with, lines 130-213
SvgWith(st) ==
    LET n == ToString(st.node_counter)
        enter_id == "with_enter_" \o n
        body_id == "with_body_" \o n
        exit_id == "with_exit_" \o n
        y == st.current_y
    IN [st EXCEPT !.nodes = @ \o
                     <<SvgNode(enter_id, "process", "Enter", CENTER_X, y),
                       SvgNode(body_id, "process", "With Body", CENTER_X,
                               y + NODE_SPACING_Y),
                       SvgNode(exit_id, "process", "Exit", CENTER_X,
                               y + 2 * NODE_SPACING_Y)>>,
                  !.edges = @ \o <<Straight(st.current_node_id, enter_id),
                                   Straight(enter_id, body_id),
                                   Straight(body_id, exit_id)>>,
                  !.current_node_id = exit_id,
                  !.current_y = y + 3 * NODE_SPACING_Y,
                  !.node_counter = @ + 1]

\* try, lines 215-401
SvgTry(st, flow) ==
    LET n == ToString(st.node_counter)
        try_id == "try_" \o n
        try_body_id == "try_body_" \o n
        end_try_id == "end_try_" \o n
        finally_id == "finally_" \o n
        exceptions == flow.exceptions
        y0 == st.current_y
        current_y == y0 + NODE_SPACING_Y
        branch_x_offset == 0 - (BRANCH_SPACING_X * (Len(exceptions) - 1)) \div 2
        except_id(i) == "except_" \o ToString(i) \o "_" \o n
        except_body_id(i) == "except_body_" \o ToString(i) \o "_" \o n
        x_pos(i) == CENTER_X + branch_x_offset + (i - 1) * BRANCH_SPACING_X
        handler_nodes(i) ==
            <<SvgNode(except_id(i), "process", "Except", x_pos(i),
                      current_y + NODE_SPACING_Y),
              SvgNode(except_body_id(i), "process", "Except Body", x_pos(i),
                      current_y + 2 * NODE_SPACING_Y)>>
        handler_edges(i) ==
            <<SvgEdge(try_body_id, except_id(i), exceptions[i], "straight", "", ""),
              Straight(except_id(i), except_body_id(i))>>
        AllHandlers(Part(_)) ==
            LET RECURSIVE cat(_)
                cat(i) == IF i > Len(exceptions) THEN <<>> ELSE Part(i) \o cat(i + 1)
            IN cat(1)
        joins(target) == [i \in 1..Len(exceptions) |-> Straight(except_body_id(i), target)]
        merge_y == current_y + 3 * NODE_SPACING_Y
        end_y == IF flow.has_finally THEN merge_y + NODE_SPACING_Y ELSE merge_y
    IN [st EXCEPT
          !.nodes = @ \o <<SvgNode(try_id, "process", "Try", CENTER_X, y0),
                           SvgNode(try_body_id, "process", "Try Body", CENTER_X, current_y)>>
                      \o AllHandlers(handler_nodes)
                      \o (IF flow.has_finally
                          THEN <<SvgNode(finally_id, "process", "Finally", CENTER_X, merge_y)>>
                          ELSE <<>>)
                      \o <<SvgNode(end_try_id, "process", "Continue", CENTER_X, end_y)>>,
          !.edges = @ \o <<Straight(st.current_node_id, try_id),
                           Straight(try_id, try_body_id)>>
                      \o AllHandlers(handler_edges)
                      \o (IF flow.has_finally
                          THEN <<SvgEdge(try_body_id, finally_id, "Success", "straight",
                                         "", "")>>
                               \o joins(finally_id)
                               \o <<Straight(finally_id, end_try_id)>>
                          ELSE <<SvgEdge(try_body_id, end_try_id, "Success", "straight",
                                         "", "")>>
                               \o joins(end_try_id)),
          !.current_node_id = end_try_id,
          !.current_y = end_y + NODE_SPACING_Y,
          !.node_counter = @ + 1]

\* if, lines 403-546
SvgIf(st, flow) ==
    LET decision_id == "decision_" \o ToString(st.node_counter)
        true_id == decision_id \o "_true"
        false_id == decision_id \o "_false"
        merge_id == decision_id \o "_merge"
        has_else == flow.has_else
        arm_y == st.current_y + NODE_SPACING_Y + DECISION_HEIGHT \div 2
        merge_y == arm_y + NODE_SPACING_Y
    IN [st EXCEPT
          !.nodes = @ \o
             <<SvgNode(decision_id, "decision", "condition", CENTER_X, st.current_y),
               SvgNode(true_id, "process", "If Body",
                       CENTER_X - (IF has_else THEN BRANCH_SPACING_X ELSE 0), arm_y)>>
             \o (IF has_else
                 THEN <<SvgNode(false_id, "process", "Else Body",
                                CENTER_X + BRANCH_SPACING_X, arm_y)>>
                 ELSE <<>>)
             \o <<SvgNode(merge_id, "process", "Continue", CENTER_X, merge_y)>>,
          !.edges = @ \o
             <<Straight(st.current_node_id, decision_id),
               SvgEdge(decision_id, true_id, "Yes", "straight",
                       IF has_else THEN "left" ELSE "bottom", "top")>>
             \o (IF has_else
                 THEN <<SvgEdge(decision_id, false_id, "No", "straight", "right", "top"),
                        Straight(true_id, merge_id),
                        Straight(false_id, merge_id)>>
                 ELSE <<Straight(true_id, merge_id),
                        SvgEdge(decision_id, merge_id, "No", "straight", "bottom", "top")>>),
          !.current_node_id = merge_id,
          !.current_y = merge_y + NODE_SPACING_Y,
          !.node_counter = @ + 1]

\* Variant of SvgLoop whose decision has the body exit only: the flow goes on
\* from the body.
SvgLoop_OneExit(st, prefix, body_text, taken, exhausted) ==
    LET loop_id == prefix \o ToString(st.node_counter)
        body_id == loop_id \o "_body"
        body_y == st.current_y + NODE_SPACING_Y + DECISION_HEIGHT \div 2
    IN [st EXCEPT
          !.nodes = @ \o <<SvgNode(loop_id, "decision", prefix, CENTER_X, st.current_y),
                           SvgNode(body_id, "process", body_text, CENTER_X, body_y)>>,
          !.edges = @ \o <<Straight(st.current_node_id, loop_id),
                           SvgEdge(loop_id, body_id, taken, "straight", "bottom", "top"),
                           SvgEdge(body_id, loop_id, "Loop back", "curved", "", "")>>,
          !.current_node_id = body_id,
          !.current_y = body_y + NODE_SPACING_Y,
          !.node_counter = @ + 1]

\* Variant of SvgLoop whose back-edge is an ordinary straight edge.
SvgLoop_StraightBack(st, prefix, body_text, taken, exhausted) ==
    LET loop_id == prefix \o ToString(st.node_counter)
        body_id == loop_id \o "_body"
        end_loop_id == loop_id \o "_end"
        body_y == st.current_y + NODE_SPACING_Y + DECISION_HEIGHT \div 2
        end_y == body_y + NODE_SPACING_Y
    IN [st EXCEPT
          !.nodes = @ \o <<SvgNode(loop_id, "decision", prefix, CENTER_X, st.current_y),
                           SvgNode(body_id, "process", body_text, CENTER_X, body_y),
                           SvgNode(end_loop_id, "process", "Continue", CENTER_X, end_y)>>,
          !.edges = @ \o <<Straight(st.current_node_id, loop_id),
                           SvgEdge(loop_id, body_id, taken, "straight", "bottom", "top"),
                           SvgEdge(loop_id, end_loop_id, exhausted, "straight", "right",
                                   "top"),
                           Straight(body_id, loop_id)>>,
          !.current_node_id = end_loop_id,
          !.current_y = end_y + NODE_SPACING_Y,
          !.node_counter = @ + 1]

\* for (lines 548-640) and while (lines 642-731) differ in ids and texts only.
SvgLoop(st, prefix, body_text, taken, exhausted) ==
    LET loop_id == prefix \o ToString(st.node_counter)
        body_id == loop_id \o "_body"
        end_loop_id == loop_id \o "_end"
        body_y == st.current_y + NODE_SPACING_Y + DECISION_HEIGHT \div 2
        end_y == body_y + NODE_SPACING_Y
    IN [st EXCEPT
          !.nodes = @ \o <<SvgNode(loop_id, "decision", prefix, CENTER_X, st.current_y),
                           SvgNode(body_id, "process", body_text, CENTER_X, body_y),
                           SvgNode(end_loop_id, "process", "Continue", CENTER_X, end_y)>>,
          !.edges = @ \o <<Straight(st.current_node_id, loop_id),
                           SvgEdge(loop_id, body_id, taken, "straight", "bottom", "top"),
                           SvgEdge(loop_id, end_loop_id, exhausted, "straight", "right",
                                   "top"),
                           SvgEdge(body_id, loop_id, "Loop back", "curved", "", "")>>,
          !.current_node_id = end_loop_id,
          !.current_y = end_y + NODE_SPACING_Y,
          !.node_counter = @ + 1]

SvgFor(st) == SvgLoop(st, "loop_", "Loop Body", "Has items", "No items")
SvgWhile(st) == SvgLoop(st, "while_", "While Body", "True", "False")

\* return, lines 733-775
SvgReturn(st) ==
    LET return_id == "return_" \o ToString(st.node_counter)
    IN [st EXCEPT
          !.nodes = @ \o <<SvgNode(return_id, "end", "Return", CENTER_X, st.current_y),
                           SvgNode("end", "end", "End", CENTER_X,
                                   st.current_y + NODE_SPACING_Y)>>,
          !.edges = @ \o <<Straight(st.current_node_id, return_id),
                           Straight(return_id, "end")>>,
          !.broke = TRUE]

\* The body of `for flow in flow_items`; no branch takes 'break' or 'continue'.
SvgStep(st, flow) ==
    CASE flow.type = "call" -> SvgCall(st)
      [] flow.type = "with" -> SvgWith(st)
      [] flow.type = "try" -> SvgTry(st, flow)
      [] flow.type = "if" -> SvgIf(st, flow)
      [] flow.type = "for" -> SvgFor(st)
      [] flow.type = "while" -> SvgWhile(st)
      [] flow.type = "return" -> SvgReturn(st)
      [] OTHER -> st

RECURSIVE SvgItems(_, _, _)
SvgItems(st, flow_items, i) ==
    IF i > Len(flow_items) \/ st.broke THEN st
    ELSE SvgItems(SvgStep(st, flow_items[i]), flow_items, i + 1)

\* Variant of SvgAddEnd without the test `'end' not in node_map`.
SvgAddEnd_Unconditional(st) ==
    [st EXCEPT !.nodes = Append(@, SvgNode("end", "end", "End", CENTER_X, st.current_y)),
               !.edges = Append(@, Straight(st.current_node_id, "end"))]

\* `if 'end' not in node_map`, lines 777-797
SvgAddEnd(st) ==
    IF \E i \in 1..Len(st.nodes) : st.nodes[i].id = "end" THEN st
    ELSE [st EXCEPT !.nodes = Append(@, SvgNode("end", "end", "End", CENTER_X,
                                                st.current_y)),
                    !.edges = Append(@, Straight(st.current_node_id, "end"))]

\* _generate_function_svg: the nodes and edges handed to _generate_svg_content.
generate_function_svg(flow_items) ==
    LET start == [nodes |-> <<SvgNode("start", "start", "Start", CENTER_X, START_Y)>>,
                  edges |-> <<>>, current_y |-> FIRST_Y, current_node_id |-> "start",
                  node_counter |-> 1, broke |-> FALSE]
    IN SvgAddEnd(SvgItems(start, SortByLine(flow_items), 1))

\* _generate_svg_content, the edge loop (lines 872-895): an edge between two
\* nodes of node_map is drawn as a quadratic <path> when its type is 'curved'
\* and as a <line> otherwise.
svg_edge_element(edge) == IF edge.type = "curved" THEN "path" ELSE "line"

\* The sides _generate_svg_content asks _get_node_connection_point for
\* (lines 866-867): edge.get('from_side', 'bottom') and edge.get('to_side', 'top').
svg_from_side(edge) == IF edge.from_side = "" THEN "bottom" ELSE edge.from_side
svg_to_side(edge) == IF edge.to_side = "" THEN "top" ELSE edge.to_side

\* ------------------------------------------------- the two diagram requests
\* DiagramGenerator.generate_flowchart(function_name) on the parse result, for
\* a function of that name: every candidate has the same entries of
\* control_flow, so the flowchart is that of _generate_single_flowchart.
generate_flowchart(function_name) ==
    /\ pc = "done"
    /\ mermaid = <<>>
    /\ \E i \in 1..Len(functions) : functions[i].name = function_name
    /\ mermaid' = generate_single_flowchart(function_name)
    /\ UNCHANGED <<pc, line, source, parserVars, visitorVars, svg, importVars, requestVars,
                   instanceVars>>

\* SVGFlowchartGenerator.generate_svg_flowchart(function_name): the empty
\* picture without such a function or without entries for it.
generate_svg_flowchart(function_name) ==
    /\ pc = "done"
    /\ svg.kind = "none"
    /\ svg' = IF (\E i \in 1..Len(functions) : functions[i].name = function_name)
                 /\ FuncFlow(function_name) # <<>>
              THEN LET drawn == generate_function_svg(FuncFlow(function_name))
                   IN [kind |-> "flowchart", nodes |-> drawn.nodes, edges |-> drawn.edges]
              ELSE [kind |-> "empty", nodes |-> <<>>, edges |-> <<>>]
    /\ UNCHANGED <<pc, line, source, parserVars, visitorVars, mermaid, importVars, requestVars,
                   instanceVars>>

\* ------------------------------- DiagramGenerator.generate_architecture_diagram
\* The module names the specifications draw, in the order sorted() gives them.
ModuleOrder == <<"json", "os", "sys">>

\* _add_imports_section; module.split('.')[0] is the first part of the name.
add_imports_section(lines, root_id) ==
    LET named == {i \in 1..Len(imports) :
                    \/ imports[i].type = "import"
                    \/ imports[i].type = "from_import" /\ imports[i].module # <<>>}
        import_modules == {imports[i].module[1] : i \in named}
        sorted == SelectSeq(ModuleOrder, LAMBDA m : m \in import_modules)
        shown == SubSeq(sorted, 1, Min(6, Len(sorted)))
        count == Cardinality(import_modules)
    IN IF import_modules = {} THEN lines
       ELSE lines
            \o <<EdgeLine(root_id, "IMPORTS", "", "rect", "Imports (" \o ToString(count) \o ")")>>
            \o [k \in 1..Len(shown) |->
                  EdgeLine("IMPORTS", "IMP_" \o shown[k], "", "rect", shown[k])]
            \o (IF count > 6
                THEN <<EdgeLine("IMPORTS", "MORE_IMPORTS", "", "rect",
                                "... " \o ToString(count - 6) \o " more")>>
                ELSE <<>>)

\* _categorize_function, for the function names the specifications draw: "main"
\* holds an entry-point keyword, the other names hold no keyword and there
\* are no docstrings, which leaves the default.
categorize_function(func) == IF func.name = "main" THEN "entry_points" ELSE "helpers"

\* _categorize_class, for class names that hold no keyword and classes without
\* docstring: the defaults by content.
categorize_class(cls) ==
    IF cls.methods # <<>> THEN "components"
    ELSE IF cls.class_variables # <<>> \/ cls.instance_variables # <<>> THEN "models"
    ELSE "components"

\* _categorize_code_elements, one category at a time
categorized(section_key) ==
    [classes |-> SelectSeq(classes, LAMBDA c : categorize_class(c) = section_key),
     functions |-> SelectSeq(functions,
                             LAMBDA f : ~f.is_nested /\ categorize_function(f) = section_key)]

\* _get_class_role without docstring and without a keyword in the name
get_class_role(cls) ==
    LET method_count == Len(cls.methods)
    IN IF method_count > 0
       THEN "Class with " \o ToString(method_count) \o " method"
            \o (IF method_count > 1 THEN "s" ELSE "")
       ELSE "Class definition"

section_configs ==
    <<[key |-> "components", id |-> "COMPONENTS", label |-> "Components"],
      [key |-> "services", id |-> "SERVICES", label |-> "Services"],
      [key |-> "models", id |-> "MODELS", label |-> "Models"],
      [key |-> "helpers", id |-> "HELPERS", label |-> "Helpers"],
      [key |-> "entry_points", id |-> "ENTRY_POINTS", label |-> "Entry Points"]>>

\* One turn of the loop of _add_categorized_sections (the classes of the model
\* have no bases, so no inheritance edge is drawn).
Section(cfg) ==
    LET cs == categorized(cfg.key).classes
        fs == categorized(cfg.key).functions
        cshown == SubSeq(cs, 1, Min(8, Len(cs)))
        fshown == SubSeq(fs, 1, Min(6, Len(fs)))
        remaining == (Len(cs) - 8) + (Len(fs) - 6)
    IN IF cs = <<>> /\ fs = <<>> THEN <<>>
       ELSE <<EdgeLine("MODULE", cfg.id, "", "rect",
                       cfg.label \o " (" \o ToString(Len(cs) + Len(fs)) \o ")")>>
            \o [k \in 1..Len(cshown) |->
                  EdgeLine(cfg.id, cfg.id \o "_CLASS_" \o cshown[k].name, "", "rect",
                           cshown[k].name \o "\\n<i>" \o get_class_role(cshown[k]) \o "</i>")]
            \o [k \in 1..Len(fshown) |->
                  EdgeLine(cfg.id, cfg.id \o "_FUNC_" \o fshown[k].name, "", "rect",
                           (IF fshown[k].is_async THEN "async " ELSE "")
                           \o fshown[k].name \o "()")]
            \o (IF remaining > 0
                THEN <<EdgeLine(cfg.id, "MORE_" \o cfg.id, "", "rect",
                                "... " \o ToString(remaining) \o " more")>>
                ELSE <<>>)

RECURSIVE add_categorized_sections(_, _)
add_categorized_sections(lines, k) ==
    IF k > Len(section_configs) THEN lines
    ELSE add_categorized_sections(lines \o Section(section_configs[k]), k + 1)

add_execution_entry_point(lines, root_id) ==
    IF execution_scope_vars = <<>> THEN lines
    ELSE lines
         \o <<EdgeLine(root_id, "EXECUTION", "", "rect", "Execution Scope"),
              EdgeLine("EXECUTION", "EXEC_VARS", "", "rect",
                       "Variables: " \o ToString(Len(execution_scope_vars)))>>

add_global_variables(lines, root_id) ==
    LET shown == SubSeq(global_vars, 1, Min(4, Len(global_vars)))
    IN IF global_vars = <<>> THEN lines
       ELSE lines
            \o <<EdgeLine(root_id, "GLOBALS", "", "rect",
                          "Global Variables (" \o ToString(Len(global_vars)) \o ")")>>
            \o [k \in 1..Len(shown) |->
                  EdgeLine("GLOBALS", "GLOBAL_" \o shown[k].name, "", "rect", shown[k].name)]

\* _generate_sql_architecture_diagram on a model without tables
sql_architecture_no_tables ==
    <<NodeLine("A", "rect", "No Tables Found"),
      EdgeLine("A", "B", "", "rect", "Add CREATE TABLE statements to your SQL")>>

\* generate_architecture_diagram() on the model parse returned; `language` is
\* parse_result.get('language', 'python').lower(). The style statements carry
\* no structure and are left out.
architecture_diagram(language) ==
    IF language = "sql" THEN sql_architecture_no_tables
    ELSE LET root_id == "MODULE"
             root == <<NodeLine(root_id, "rect", "Module")>>
             with_imports == add_imports_section(root, root_id)
             with_sections == add_categorized_sections(with_imports, 1)
             with_entry == add_execution_entry_point(with_sections, root_id)
         IN add_global_variables(with_entry, root_id)

generate_architecture_diagram(language) ==
    /\ pc = "done"
    /\ architecture = <<>>
    /\ architecture' = architecture_diagram(language)
    /\ UNCHANGED <<pc, line, source, parserVars, visitorVars, imports, diagramVars,
                   requestVars, instanceVars>>

\* ------------------------------------ parse_code_auto and _parse_code_auto
\* None, for the language argument
NoLanguage == "<None>"

\* str.lower() on the tags the callers are tried with.
Lower(language) ==
    CASE language = "Python" -> "python"
      [] language = "JavaScript" -> "javascript"
      [] language = "SQL" -> "sql"
      [] language = "Ruby" -> "ruby"
      [] OTHER -> language

\* language.lower() if language else 'python'
LangNormalized(language) ==
    IF language \in {NoLanguage, ""} THEN "python" ELSE Lower(language)

\* The tags the ValueError's message lists.
SupportedLanguages == <<"python", "javascript", "sql">>

\* Variant of Dispatch that hands every tag it does not know to CodeParser.
Dispatch_FallBackToPython(language, code_ok, normalize) ==
    LET lang_normalized == LangNormalized(language)
        outcome == [language |-> language, parser |-> "", result |-> "", normalized |-> FALSE,
                    error |-> "", error_language |-> "", error_supported |-> <<>>]
    IN CASE lang_normalized = "javascript" ->
              [outcome EXCEPT !.parser = "JavaScriptParser", !.result = "javascript"]
         [] lang_normalized = "sql" ->
              [outcome EXCEPT !.parser = "SQLParser", !.result = "sql"]
         [] OTHER ->
              IF code_ok
              THEN [outcome EXCEPT !.parser = "CodeParser", !.result = "python",
                                   !.normalized = normalize]
              ELSE [outcome EXCEPT !.parser = "CodeParser", !.error = "SyntaxError"]

\* What a call constructs, returns or raises. code_ok: ast.parse accepts the
\* code (CodeParser.parse re-raises its SyntaxError); normalize: the caller is
\* app.parse_code_auto, which passes a Python result to normalize_variable_fields.
Dispatch(language, code_ok, normalize) ==
    LET lang_normalized == LangNormalized(language)
        outcome == [language |-> language, parser |-> "", result |-> "", normalized |-> FALSE,
                    error |-> "", error_language |-> "", error_supported |-> <<>>]
    IN CASE lang_normalized = "python" ->
              IF code_ok
              THEN [outcome EXCEPT !.parser = "CodeParser", !.result = "python",
                                   !.normalized = normalize]
              ELSE [outcome EXCEPT !.parser = "CodeParser", !.error = "SyntaxError"]
         [] lang_normalized = "javascript" ->
              [outcome EXCEPT !.parser = "JavaScriptParser", !.result = "javascript"]
         [] lang_normalized = "sql" ->
              [outcome EXCEPT !.parser = "SQLParser", !.result = "sql"]
         [] OTHER ->
              [outcome EXCEPT !.error = "ValueError", !.error_language = lang_normalized,
                              !.error_supported = SupportedLanguages]

\* app.parse_code_auto(code, language)
parse_code_auto(language, code_ok) ==
    /\ calls' = Append(calls, Dispatch(language, code_ok, TRUE))
    /\ UNCHANGED <<pc, line, source, parserVars, visitorVars, diagramVars, importVars,
                   responses,
                   instanceVars>>

\* project_scanner._parse_code_auto(code, language)
scanner_parse_code_auto(language, code_ok) ==
    /\ calls' = Append(calls, Dispatch(language, code_ok, FALSE))
    /\ UNCHANGED <<pc, line, source, parserVars, visitorVars, diagramVars, importVars,
                   responses,
                   instanceVars>>

\* ------------------------------------------- /api/parse and /api/parse-project
\* The keys of the `diagrams` dictionary, in the order their generators run.
DiagramTypes ==
    <<"architecture", "code_architecture", "sequence", "dependencies", "flowchart",
      "structure">>

\* jsonify(...) of either handler. request: what was asked (kept with the
\* answer); model: the kind of parse result in the body, "" without one;
\* diagrams: the diagram types the body holds an output for.
Response(request, status, error) ==
    [request |-> request, status |-> status, error |-> error, model |-> "",
     detected_language |-> "", diagrams |-> {}, file_diagrams |-> FALSE,
     diagram_error |-> ""]

\* The try block around the six generators (app.py 402-422, 531-551): raises is
\* the first diagram type whose generator raises, "" when none does. A raise
\* leaves the dictionary literal unbuilt.
DiagramsBuilt(raises) ==
    IF raises = "" THEN {DiagramTypes[i] : i \in 1..Len(DiagramTypes)} ELSE {}

\* Variant of ParseErrorResponse that answers with what was built so far.
ParseErrorResponse_Partial(request, lang_normalized, outcome) ==
    [Response(request, 200, "Error parsing " \o lang_normalized \o " code")
     EXCEPT !.detected_language = lang_normalized,
            !.model = lang_normalized,
            !.diagrams = DiagramsBuilt(request.raises)]

\* parse_code, the two except clauses around parse_code_auto (lines 378-393).
ParseErrorResponse(request, lang_normalized, outcome) ==
    [Response(request, 400,
              IF outcome.error = "ValueError" THEN "ValueError"
              ELSE "Error parsing " \o lang_normalized \o " code")
     EXCEPT !.detected_language = lang_normalized]

\* parse_code: the answer to a request. body: "not_json", "no_data", "no_code"
\* or "code"; detected: what LanguageDetector.detect returned; code_ok: the
\* parser accepts the code; raises: as in DiagramsBuilt.
ParseCodeResponse(request) ==
    LET lang_normalized == LangNormalized(request.detected)
        outcome == Dispatch(lang_normalized, request.code_ok, TRUE)
    IN CASE request.body = "not_json" -> Response(request, 400, "Request must be JSON")
         [] request.body = "no_data" -> Response(request, 400, "No data provided")
         [] request.body = "no_code" -> Response(request, 400, "No code provided")
         [] OTHER ->
              IF outcome.error # ""
              THEN ParseErrorResponse(request, lang_normalized, outcome)
              ELSE [Response(request, 200, "")
                    EXCEPT !.model = outcome.result,
                           !.diagrams = DiagramsBuilt(request.raises),
                           !.diagram_error =
                               IF request.raises = "" THEN ""
                               ELSE "Error generating diagrams: " \o request.raises]

\* parse_code: parse_code_auto is called once the body holds code.
parse_code(body, detected, code_ok, raises) ==
    LET request == [handler |-> "parse_code", body |-> body, detected |-> detected,
                    code_ok |-> code_ok, raises |-> raises]
    IN /\ responses' = Append(responses, ParseCodeResponse(request))
       /\ calls' = IF body = "code"
                   THEN Append(calls, Dispatch(LangNormalized(detected), code_ok, TRUE))
                   ELSE calls
       /\ UNCHANGED <<pc, line, source, parserVars, visitorVars, diagramVars, importVars,
                   instanceVars>>

\* parse_project: the answer to a request. body: "not_json", "no_data",
\* "no_path" or "path"; scan: "" when scan_project returns, else the class of
\* the error it raises; raises: "file_diagrams" or a diagram type, or "".
ParseProjectResponse(request) ==
    CASE request.body = "not_json" -> Response(request, 400, "Request must be JSON")
      [] request.body = "no_data" -> Response(request, 400, "No data provided")
      [] request.body = "no_path" -> Response(request, 400, "No folder path provided")
      [] request.scan = "ValueError" -> Response(request, 400, "ValueError")
      [] request.scan = "Exception" -> Response(request, 500, "Error parsing project")
      [] OTHER ->
           [Response(request, 200, "")
            EXCEPT !.model = "project",
                   !.file_diagrams = (request.raises = ""),
                   !.diagrams = DiagramsBuilt(request.raises)]

parse_project(body, scan, raises) ==
    LET request == [handler |-> "parse_project", body |-> body, scan |-> scan,
                    raises |-> raises]
    IN /\ responses' = Append(responses, ParseProjectResponse(request))
       /\ UNCHANGED <<pc, line, source, parserVars, visitorVars, diagramVars, importVars,
                   calls,
                      instanceVars>>

\* ------------------------------------- parse, called again on one CodeParser
\* The dictionary parse returns (lines 70-100): it holds the parser's list
\* objects themselves, not copies.
ParseResult ==
    [functions |-> functions, classes |-> classes, global_variables |-> global_vars,
     local_variables |-> local_vars, execution_scope_variables |-> execution_scope_vars,
     function_calls |-> function_calls, method_calls |-> method_calls,
     class_instantiations |-> class_instantiations, control_flow |-> control_flow,
     imports |-> imports, warnings |-> warnings]

\* CodeParser(): the instance after __init__, before its first parse.
Constructed ==
    /\ pc = "idle"
    /\ line = 1
    /\ source = <<>>
    /\ stack = <<>>
    /\ current_class = <<>>
    /\ current_function = NoFunction
    /\ nesting_level = 0
    /\ inside_method = FALSE
    /\ inside_name_main = FALSE
    /\ functions = <<>>
    /\ classes = <<>>
    /\ global_vars = <<>>
    /\ local_vars = <<>>
    /\ execution_scope_vars = <<>>
    /\ control_flow = <<>>
    /\ function_calls = <<>>
    /\ method_calls = <<>>
    /\ class_instantiations = <<>>
    /\ global_declarations = {}
    /\ warnings = <<>>
    /\ imports = <<>>
    /\ architecture = <<>>
    /\ mermaid = <<>>
    /\ svg = [kind |-> "none", nodes |-> <<>>, edges |-> <<>>]
    /\ calls = <<>>
    /\ responses = <<>>
    /\ generation = 1
    /\ returned = <<>>

\* Variant of parse_begin whose reset forgets global_vars and function_calls.
parse_begin_PartialReset ==
    /\ pc \in {"idle", "done"}
    /\ pc' = "visit"
    /\ line' = 1
    /\ source' = <<>>
    /\ functions' = <<>>
    /\ classes' = <<>>
    /\ local_vars' = <<>>
    /\ execution_scope_vars' = <<>>
    /\ method_calls' = <<>>
    /\ class_instantiations' = <<>>
    /\ warnings' = <<>>
    /\ global_declarations' = {}
    /\ stack' = <<>>
    /\ current_class' = <<>>
    /\ current_function' = NoFunction
    /\ nesting_level' = 0
    /\ inside_method' = FALSE
    /\ inside_name_main' = FALSE
    /\ generation' = generation + 1
    /\ control_flow' = <<>>
    /\ imports' = <<>>
    /\ UNCHANGED <<global_vars, function_calls, returned, architecture, diagramVars,
                   requestVars>>

\* parse(code) on code that ast.parse accepts, up to `visitor = CodeVisitor(self)`
\* (lines 23-48): every attribute is bound to a new empty list.
parse_begin ==
    /\ pc \in {"idle", "done"}
    /\ pc' = "visit"
    /\ line' = 1
    /\ source' = <<>>
    /\ functions' = <<>>
    /\ classes' = <<>>
    /\ global_vars' = <<>>
    /\ local_vars' = <<>>
    /\ execution_scope_vars' = <<>>
    /\ function_calls' = <<>>
    /\ method_calls' = <<>>
    /\ class_instantiations' = <<>>
    /\ control_flow' = <<>>
    /\ warnings' = <<>>
    /\ global_declarations' = {}
    /\ stack' = <<>>
    /\ current_class' = <<>>
    /\ current_function' = NoFunction
    /\ nesting_level' = 0
    /\ inside_method' = FALSE
    /\ inside_name_main' = FALSE
    /\ generation' = generation + 1
    /\ imports' = <<>>
    /\ UNCHANGED <<returned, architecture, diagramVars, requestVars>>

\* parse(code) on code that ast.parse rejects (lines 25-28): the SyntaxError
\* leaves before anything is touched.
parse_raise ==
    /\ pc \in {"idle", "done"}
    /\ returned' = Append(returned, [raised |-> "SyntaxError", generation |-> 0,
                                     source |-> <<>>, model |-> <<>>])
    /\ UNCHANGED <<pc, line, source, parserVars, visitorVars, diagramVars, importVars,
                   requestVars,
                   generation>>

\* parse, from `self._detect_warnings()` to the return of the dictionary.
parse_return_model ==
    /\ parse_return
    /\ UNCHANGED <<generation, diagramVars, importVars, requestVars>>
    /\ returned' = Append(returned, [raised |-> "", generation |-> generation,
                                     source |-> source, model |-> <<ParseResult'>>])

\* --------------------------------------------------------- specifications
\* The names the sources are written with.
ScopeVarNames == {"x"}
WarnFunctionNames == {"a", "a_b"}
WarnVarNames == {"c", "b_c"}
NestFunctionNames == {"f", "g"}
TryHandlerTypes == {<<>>, <<"ValueError">>, <<"KeyError", "OSError">>}

\* Sources of assignments under functions, classes and the main guard.
NextScope ==
    /\ UNCHANGED <<diagramVars, importVars, requestVars, instanceVars>>
    /\ \/ /\ line <= MaxScopeLine
          /\ \/ \E t \in {"name", "self"}, n \in ScopeVarNames : visit_Assign(t, n)
             \/ \E n \in ScopeVarNames : visit_AnnAssign("name", n)
             \/ visit_FunctionDef("f", FALSE, FALSE)
             \/ visit_ClassDef("K")
             \/ visit_If(TRUE, FALSE)
       \/ else_If
       \/ end_If
       \/ end_FunctionDef
       \/ end_ClassDef
       \/ parse_return

SpecScope == ParseInit /\ [][NextScope]_vars

\* Sources of function and class definitions nested in one another.
NextNest ==
    /\ UNCHANGED <<diagramVars, importVars, requestVars, instanceVars>>
    /\ \/ /\ line <= MaxNestLine
          /\ \/ \E n \in NestFunctionNames : visit_FunctionDef(n, FALSE, FALSE)
             \/ \E n \in NestFunctionNames : visit_AsyncFunctionDef(n, FALSE, FALSE)
             \/ visit_ClassDef("K")
       \/ end_FunctionDef
       \/ end_ClassDef
       \/ parse_return

SpecNest == ParseInit /\ [][NextNest]_vars

\* Sources of one-line statements in function bodies, the function headers
\* with or without a decorator call and default-argument calls.
NextEvents ==
    /\ UNCHANGED <<diagramVars, importVars, requestVars, instanceVars>>
    /\ \/ /\ line <= MaxEventLine
          /\ \/ \E d \in BOOLEAN, a \in BOOLEAN : visit_FunctionDef("f", d, a)
             \/ visit_ClassDef("K")
             \/ visit_Call("name", "", "g")
             \/ visit_Call("name", "", "K")
             \/ visit_Call("attr", "self", "m")
             \/ visit_Call("attr", "obj", "m")
             \/ \E e \in BOOLEAN : visit_If(FALSE, e)
             \/ visit_For
             \/ visit_While
             \/ \E t \in TryHandlerTypes, fin \in BOOLEAN : visit_Try(t, fin)
             \/ visit_With
             \/ visit_Return
             \/ visit_Break
             \/ visit_Continue
       \/ end_FunctionDef
       \/ end_ClassDef
       \/ parse_return

SpecEvents == ParseInit /\ [][NextEvents]_vars

\* Sources of module-level and function-level assignments and `global`
\* declarations, the names chosen so that two warning keys can coincide.
NextWarn ==
    /\ UNCHANGED <<diagramVars, importVars, requestVars, instanceVars>>
    /\ \/ /\ line <= MaxWarnLine
          /\ \/ \E n \in WarnVarNames : visit_Assign("name", n)
             \/ visit_Global("c")
             \/ \E n \in WarnFunctionNames : visit_FunctionDef(n, FALSE, FALSE)
       \/ end_FunctionDef
       \/ parse_return

SpecWarn == ParseInit /\ [][NextWarn]_vars

\* One function f, with or without a decorator call, its body any statements
\* that leave an entry in control_flow; then the two diagrams of f.
FlowTryShapes == {<<<<>>, TRUE>>, <<<<"KeyError", "OSError">>, FALSE>>}

NextFlow ==
    \/ /\ line <= MaxFlowLine
       /\ UNCHANGED <<diagramVars, importVars, requestVars, instanceVars>>
       /\ \/ /\ functions = <<>>
             /\ stack = <<>>
             /\ \E d \in BOOLEAN : visit_FunctionDef("f", d, FALSE)
          \/ /\ functions # <<>>
             /\ stack = <<>>
             /\ visit_Call("name", "", "g")
          \/ /\ stack # <<>>
             /\ \/ visit_Call("name", "", "g")
                \/ \E e \in BOOLEAN : visit_If(FALSE, e)
                \/ visit_For
                \/ visit_While
                \/ \E t \in FlowTryShapes : visit_Try(t[1], t[2])
                \/ visit_With
                \/ visit_Return
                \/ visit_Break
                \/ visit_Continue
    \/ end_FunctionDef /\ UNCHANGED <<diagramVars, importVars, requestVars, instanceVars>>
    \/ parse_return /\ UNCHANGED <<diagramVars, importVars, requestVars, instanceVars>>
    \/ generate_flowchart("f")
    \/ generate_svg_flowchart("f")

SpecFlow == ParseInit /\ [][NextFlow]_vars

\* The sources of the two worked scenarios: one function f whose body holds
\* if, for, call and return statements.
NextScenario ==
    \/ /\ line <= MaxScenarioLine
       /\ UNCHANGED <<diagramVars, importVars, requestVars, instanceVars>>
       /\ \/ /\ functions = <<>>
             /\ stack = <<>>
             /\ visit_FunctionDef("f", FALSE, FALSE)
          \/ /\ stack # <<>>
             /\ \/ visit_Call("name", "", "g")
                \/ \E e \in BOOLEAN : visit_If(FALSE, e)
                \/ visit_For
                \/ visit_Return
    \/ end_FunctionDef /\ UNCHANGED <<diagramVars, importVars, requestVars, instanceVars>>
    \/ parse_return /\ UNCHANGED <<diagramVars, importVars, requestVars, instanceVars>>
    \/ generate_flowchart("f")
    \/ generate_svg_flowchart("f")

SpecScenario == ParseInit /\ [][NextScenario]_vars

\* Calls of the two dispatchers with tags in either case, absent and empty.
LanguageTags == {"python", "Python", "javascript", "sql", "SQL", "ruby", "Ruby", "java",
                 "", NoLanguage}

NextAuto ==
    /\ Len(calls) < MaxCalls
    /\ \/ \E language \in LanguageTags, code_ok \in BOOLEAN :
            parse_code_auto(language, code_ok)
       \/ \E language \in LanguageTags, code_ok \in BOOLEAN :
            scanner_parse_code_auto(language, code_ok)

SpecAuto == ParseInit /\ [][NextAuto]_vars

\* Requests to the two handlers: any body, any detected language, code the
\* parser accepts or not, and any one diagram generator raising.
DetectedLanguages == {NoLanguage, "python", "javascript", "sql", "java"}
RaisingDiagram == {""} \cup {DiagramTypes[i] : i \in 1..Len(DiagramTypes)}

NextRequest ==
    /\ Len(responses) < MaxRequests
    /\ \/ \E body \in {"not_json", "no_data", "no_code"} :
            parse_code(body, NoLanguage, TRUE, "")
       \/ \E detected \in DetectedLanguages, code_ok \in BOOLEAN,
             raises \in RaisingDiagram :
            parse_code("code", detected, code_ok, raises)
       \/ \E body \in {"not_json", "no_data", "no_path"} :
            parse_project(body, "", "")
       \/ \E scan \in {"ValueError", "Exception"} :
            parse_project("path", scan, "")
       \/ \E raises \in RaisingDiagram \cup {"file_diagrams"} :
            parse_project("path", "", raises)

SpecRequest == ParseInit /\ [][NextRequest]_vars

\* One CodeParser whose parse is called again and again, on sources of
\* assignments, calls and one function, and on sources that do not parse
\* (one failing call at most between two others).
NextReuse ==
    \/ /\ generation <= MaxParses
       /\ parse_begin
    \/ /\ IF returned = <<>> THEN TRUE ELSE returned[Len(returned)].raised = ""
       /\ parse_raise
    \/ /\ pc = "visit"
       /\ line <= MaxReuseLine
       /\ UNCHANGED <<diagramVars, importVars, requestVars, instanceVars>>
       /\ \/ visit_Assign("name", "x")
          \/ visit_Call("name", "", "g")
          \/ visit_FunctionDef("f", FALSE, FALSE)
    \/ /\ pc = "visit"
       /\ end_FunctionDef
       /\ UNCHANGED <<diagramVars, importVars, requestVars, instanceVars>>
    \/ parse_return_model

SpecReuse == Constructed /\ [][NextReuse]_vars

\* Sources of imports, module-level assignments, a main guard, functions and a
\* class, and the architecture diagram of their model.
ImportedModules == {<<"os">>, <<"os", "path">>, <<"sys">>, <<"json">>}
FromModules == ImportedModules \cup {<<>>}
ArchFunctionNames == {"f", "main"}

NextArchitecture ==
    \/ /\ line <= MaxArchLine
       /\ stack = <<>>
       /\ UNCHANGED <<diagramVars, requestVars, instanceVars>>
       /\ \/ \E m \in ImportedModules : visit_Import(m)
          \/ \E m \in FromModules : visit_ImportFrom(m)
    \/ /\ line <= MaxArchLine
       /\ UNCHANGED <<diagramVars, importVars, requestVars, instanceVars>>
       /\ \/ visit_Assign("name", "x")
          \/ /\ stack = <<>>
             /\ \/ \E n \in ArchFunctionNames : visit_FunctionDef(n, FALSE, FALSE)
                \/ visit_ClassDef("C")
                \/ visit_If(TRUE, FALSE)
    \/ /\ \/ end_FunctionDef
          \/ end_ClassDef
          \/ end_If
       /\ UNCHANGED <<diagramVars, importVars, requestVars, instanceVars>>
    \/ parse_return /\ UNCHANGED <<diagramVars, importVars, requestVars, instanceVars>>
    \/ generate_architecture_diagram("python")

SpecArchitecture == ParseInit /\ [][NextArchitecture]_vars

\* One function f whose body is calls with for and with statements between
\* them, long enough for a run of more than four calls; then the two diagrams.
NextCalls ==
    \/ /\ line <= MaxCallLine
       /\ UNCHANGED <<diagramVars, importVars, requestVars, instanceVars>>
       /\ \/ /\ functions = <<>>
             /\ stack = <<>>
             /\ visit_FunctionDef("f", FALSE, FALSE)
          \/ /\ stack # <<>>
             /\ \/ visit_Call("name", "", "g")
                \/ visit_For
                \/ visit_With
    \/ end_FunctionDef /\ UNCHANGED <<diagramVars, importVars, requestVars, instanceVars>>
    \/ parse_return /\ UNCHANGED <<diagramVars, importVars, requestVars, instanceVars>>
    \/ generate_flowchart("f")
    \/ generate_svg_flowchart("f")

SpecCalls == ParseInit /\ [][NextCalls]_vars

\* Sources of calls of every form (callee(), K(), self.m(), obj.m(),
\* outer(inner())) in functions, in methods of a class K and at module level.
NextEdges ==
    /\ UNCHANGED <<diagramVars, importVars, requestVars, instanceVars>>
    /\ \/ /\ line <= MaxEdgeLine
          /\ \/ \E d \in BOOLEAN : visit_FunctionDef("f", d, FALSE)
             \/ visit_ClassDef("K")
             \/ \E n \in {"g", "K"} : visit_Call("name", "", n)
             \/ \E o \in {"self", "obj"} : visit_Call("attr", o, "m")
             \/ \E n \in {"g", "K"} : visit_CallInCall("g", n)
       \/ end_FunctionDef
       \/ end_ClassDef
       \/ parse_return

SpecEdges == ParseInit /\ [][NextEdges]_vars

\* ================================================================== claims
\* The scope classes under which the extractor filed the binding of line ln.
RecordedAs(ln) ==
    (IF \E i \in 1..Len(global_vars) : global_vars[i].line = ln
     THEN {"Global"} ELSE {})
    \cup (IF \E i \in 1..Len(execution_scope_vars) : execution_scope_vars[i].line = ln
          THEN {"ExecutionScope"} ELSE {})
    \cup (IF \E i \in 1..Len(local_vars) : local_vars[i].line = ln
          THEN {"Local"} ELSE {})
    \cup (IF \E c \in 1..Len(classes) : \E i \in 1..Len(classes[c].class_variables) :
                 classes[c].class_variables[i].line = ln
          THEN {"ClassVariable"} ELSE {})
    \cup (IF \E c \in 1..Len(classes) : \E i \in 1..Len(classes[c].instance_variables) :
                 classes[c].instance_variables[i].line = ln
          THEN {"InstanceVariable"} ELSE {})

\* The classes the claim allows at the position of statement s. The else branch
\* of the main guard is left open here (either Global or ExecutionScope).
AllowedScope(s) ==
    {s.scope} \cup (IF \E k \in 1..Len(s.lex) : s.lex[k] = "MainElse"
                    THEN {"Global", "ExecutionScope"} ELSE {})

IsAssignment(s) == s.stmt \in {"assign", "annassign"}

\* C1: after parse, every recorded plain-name assignment is filed under the scope
\* class of its lexical position (Local inside a function or method,
\* ClassVariable directly in a class body outside any function, ExecutionScope
\* under the main guard at module level, Global otherwise), and a recorded
\* `self.x = ...` is an InstanceVariable of the enclosing class.
C1_ScopeByLexicalPosition ==
    pc = "done" =>
        \A i \in 1..Len(source) :
            LET s == source[i]
            IN IsAssignment(s) =>
                 IF s.target = "name"
                 THEN RecordedAs(s.line) \subseteq AllowedScope(s)
                 ELSE /\ RecordedAs(s.line) \subseteq {"InstanceVariable"}
                      /\ \A c \in 1..Len(classes) :
                            (\E k \in 1..Len(classes[c].instance_variables) :
                                 classes[c].instance_variables[k].line = s.line)
                            => classes[c].line = s.class_line

IsDef(s) == s.stmt = "def"

\* C2: a function defined inside a class body is in no entry of the free-function
\* list and is filed under the methods of that class only; a function defined
\* inside another function (inside a method body too) is in the free-function
\* list with is_nested = true.
C2_NestingClassification ==
    pc = "done" =>
        \A i \in 1..Len(source) :
            LET s == source[i]
                free == {k \in 1..Len(functions) : functions[k].line = s.line}
                filedIn(c) == \E k \in 1..Len(classes[c].methods) :
                                  classes[c].methods[k].line = s.line
            IN IsDef(s) =>
                 /\ s.owner_kind = "ClassDef" =>
                        /\ free = {}
                        /\ \A c \in 1..Len(classes) :
                               filedIn(c) <=> classes[c].line = s.owner_line
                 /\ s.owner_kind = "FunctionDef" =>
                        /\ free # {}
                        /\ \A k \in free : functions[k].is_nested

\* C3: the control_flow entries of one function, in the order in which they
\* were appended, have non-decreasing line numbers.
C3_EventsInLineOrder ==
    \A i \in 1..Len(control_flow) : \A j \in 1..Len(control_flow) :
        (i < j /\ control_flow[i].function = control_flow[j].function)
            => control_flow[i].line <= control_flow[j].line

\* The qualified function names and the variable names of the source read.
FunctionsOfSource == {source[i].function : i \in 1..Len(source)} \ {NoFunction}
VariablesOfSource == {source[i].name : i \in {k \in 1..Len(source) : IsAssignment(source[k])}}

\* C9: after parse, for every function f and name x: when f has a Local binding
\* x, x names a Global binding and f holds no `global x`, exactly one
\* global_override warning is emitted for (f, x), with the line of the local
\* binding and the line of the global binding; for any other (f, x) none is.
C9_ShadowedGlobalWarnings ==
    pc = "done" =>
        \A f \in FunctionsOfSource : \A x \in VariablesOfSource :
            LET L == {i \in 1..Len(local_vars) :
                          local_vars[i].function = f /\ local_vars[i].name = x}
                G == {j \in 1..Len(global_vars) : global_vars[j].name = x}
                declared == \E k \in 1..Len(source) :
                                /\ source[k].stmt = "global"
                                /\ source[k].name = x
                                /\ source[k].function = f
                W == {k \in 1..Len(warnings) :
                          /\ warnings[k].type = "global_override"
                          /\ warnings[k].function = f
                          /\ warnings[k].name = x}
            IN IF L # {} /\ G # {} /\ ~declared
               THEN /\ Cardinality(W) = 1
                    /\ \A k \in W : \E i \in L : \E j \in G :
                           /\ warnings[k].line = local_vars[i].line
                           /\ warnings[k].related_line = global_vars[j].line
               ELSE W = {}


\* ------------------------------------------------------- graphs of the diagrams
\* Either diagram as a graph: the node ids, the text each node is drawn with,
\* the edges in drawing order, the number of End nodes drawn, the id of End,
\* and the ids of the decisions (the diamonds).
EdgeLines(text) == SelectSeq(text, LAMBDA l : l.stmt = "edge")
Declarations(text) == SelectSeq(text, LAMBDA l : l.shape # "")

MermaidGraph(text) ==
    LET arrows == EdgeLines(text)
        declared == Declarations(text)
    IN [ids |-> {text[i].to : i \in 1..Len(text)}
                \cup {arrows[i].from : i \in 1..Len(arrows)},
        text |-> [id \in {declared[i].to : i \in 1..Len(declared)} |->
                     declared[CHOOSE i \in 1..Len(declared) : declared[i].to = id].text],
        arcs |-> [i \in 1..Len(arrows) |-> <<arrows[i].from, arrows[i].to>>],
        ends |-> Cardinality({i \in 1..Len(declared) : declared[i].to = "END"}),
        end |-> "END",
        start |-> "Start",
        decisions |-> {declared[i].to :
                         i \in {k \in 1..Len(declared) : declared[k].shape = "diamond"}}]

SvgGraph(drawn) ==
    [ids |-> {drawn.nodes[i].id : i \in 1..Len(drawn.nodes)}
             \cup {drawn.edges[i].from : i \in 1..Len(drawn.edges)}
             \cup {drawn.edges[i].to : i \in 1..Len(drawn.edges)},
     text |-> [id \in {drawn.nodes[i].id : i \in 1..Len(drawn.nodes)} |->
                  drawn.nodes[CHOOSE i \in 1..Len(drawn.nodes) : drawn.nodes[i].id = id].text],
     arcs |-> [i \in 1..Len(drawn.edges) |-> <<drawn.edges[i].from, drawn.edges[i].to>>],
     ends |-> Cardinality({i \in 1..Len(drawn.nodes) : drawn.nodes[i].id = "end"}),
     end |-> "end",
     start |-> "start",
     decisions |-> {drawn.nodes[i].id :
                      i \in {k \in 1..Len(drawn.nodes) : drawn.nodes[k].type = "decision"}}]

OutDegree(g, id) == Cardinality({i \in 1..Len(g.arcs) : g.arcs[i][1] = id})
InDegree(g, id) == Cardinality({i \in 1..Len(g.arcs) : g.arcs[i][2] = id})
Successors(g, ids) == {g.arcs[i][2] : i \in {k \in 1..Len(g.arcs) : g.arcs[k][1] \in ids}}

\* A merge point: a "Continue" node at which two or more edges arrive.
Merges(g) == {id \in DOMAIN g.text : g.text[id] = "Continue" /\ InDegree(g, id) >= 2}

\* The nodes on the paths that start at the nodes `from`.
RECURSIVE ReachableFrom(_, _)
ReachableFrom(g, from) ==
    LET more == from \cup Successors(g, from)
    IN IF more = from THEN from ELSE ReachableFrom(g, more)

MermaidDrawn == mermaid # <<>>
SvgDrawn == svg.kind = "flowchart"
\* The entries of f in the order both generators read them.
FlowOfF == SortByLine(FuncFlow("f"))
FlowTypes == [i \in 1..Len(FlowOfF) |-> FlowOfF[i].type]

\* C4: whatever the entries of a function (none, some, with or without a return
\* or break among them), the graph each generator builds has exactly one End
\* node, and no edge leaves End.
OneEnd(graph) ==
    LET g == graph IN g.ends = 1 /\ OutDegree(g, g.end) = 0

C4_ExactlyOneEnd ==
    /\ MermaidDrawn => OneEnd(MermaidGraph(mermaid))
    /\ SvgDrawn => OneEnd(SvgGraph(svg))
    /\ OneEnd(SvgGraph(generate_function_svg(<<>>)))

\* A return in the middle of the entries, and both diagrams drawn.
C4_Witness ==
    /\ MermaidDrawn
    /\ SvgDrawn
    /\ \E i \in 1..Len(FlowTypes) : FlowTypes[i] = "return" /\ i < Len(FlowTypes)

\* C5: in the graph either generator builds, every node but End has an edge
\* leaving it, and every decision (if, for, while) has exactly two.
Total(graph) ==
    LET g == graph
    IN /\ \A id \in g.ids \ {g.end} : OutDegree(g, id) >= 1
       /\ \A id \in g.decisions : OutDegree(g, id) = 2

C5_GraphTotality ==
    /\ MermaidDrawn => Total(MermaidGraph(mermaid))
    /\ SvgDrawn => Total(SvgGraph(svg))

\* Both diagrams drawn for a body with an if and a loop.
C5_Witness ==
    /\ MermaidDrawn
    /\ SvgDrawn
    /\ \E i \in 1..Len(FlowTypes) : FlowTypes[i] = "if"
    /\ \E i \in 1..Len(FlowTypes) : FlowTypes[i] \in {"for", "while"}
    /\ Cardinality(MermaidGraph(mermaid).decisions) >= 2
    /\ Cardinality(SvgGraph(svg).decisions) >= 2

\* C7: for `if ...: return ... else: return ...` (entries: if with else,
\* return, return) the graph has one decision with two arms, End is reached
\* from each arm, and no merge point is reachable from Start.
BothArmsReturn(g) ==
    /\ Cardinality(g.decisions) = 1
    /\ \A d \in g.decisions :
         /\ OutDegree(g, d) = 2
         /\ \A arm \in Successors(g, {d}) : g.end \in ReachableFrom(g, {arm})
    /\ ReachableFrom(g, {g.start}) \cap Merges(g) = {}

IsScenario1 ==
    /\ FlowTypes = <<"if", "return", "return">>
    /\ FlowOfF[1].has_else

C7_BothArmsReturnNoMerge ==
    IsScenario1 =>
        /\ MermaidDrawn => BothArmsReturn(MermaidGraph(mermaid))
        /\ SvgDrawn => BothArmsReturn(SvgGraph(svg))

\* C8: for `for ...: if ...: call` followed by a return (entries: for, if,
\* call, return) the decision of the if lies inside the loop, on a path from
\* the loop's decision back to it, and the loop's exit is followed by
\* Return and then End.
NestedInLoop(g) ==
    \E loop \in Successors(g, {g.start}) \cap g.decisions :
        /\ \E inner \in g.decisions \ {loop} :
             /\ inner \in ReachableFrom(g, Successors(g, {loop}))
             /\ loop \in ReachableFrom(g, {inner})
        /\ \E exit \in Successors(g, {loop}) :
             /\ g.text[exit] = "Continue"
             /\ \E ret \in Successors(g, {exit}) :
                  /\ g.text[ret] = "Return"
                  /\ Successors(g, {ret}) = {g.end}

IsScenario2 == FlowTypes = <<"for", "if", "call", "return">>

C8_NestedIfInsideLoopBody ==
    IsScenario2 =>
        /\ MermaidDrawn => NestedInLoop(MermaidGraph(mermaid))
        /\ SvgDrawn => NestedInLoop(SvgGraph(svg))

\* C10 as stated: whenever the tag is anything but python, javascript or sql,
\* the call fails with the error that lists the supported tags, and no parser
\* is constructed and no result produced.
Rejected(call) ==
    /\ call.error = "ValueError"
    /\ call.error_supported = <<"python", "javascript", "sql">>
    /\ call.parser = ""
    /\ call.result = ""

C10_AsStated ==
    \A i \in 1..Len(calls) :
        calls[i].language \notin {"python", "javascript", "sql"} => Rejected(calls[i])

\* C10, amended: an absent or empty tag is read as python and a tag is read
\* in lower case; every other tag is rejected as above, the error naming the
\* tag in lower case.
C10_UnsupportedLanguageRejected ==
    \A i \in 1..Len(calls) :
        (/\ calls[i].language \notin {NoLanguage, ""}
         /\ Lower(calls[i].language) \notin {"python", "javascript", "sql"})
        => /\ Rejected(calls[i])
           /\ calls[i].error_language = Lower(calls[i].language)

\* An unsupported tag in upper case was rejected, by either dispatcher.
C10_Witness ==
    \E i \in 1..Len(calls) :
        /\ calls[i].language = "Ruby"
        /\ calls[i].error = "ValueError"
        /\ calls[i].error_language = "ruby"

\* C11: when CodeParser.parse cannot parse the source it raises and returns no
\* model, and parse_code answers with an error and with no model, no diagram
\* and no diagram error.
Unparseable(r) ==
    /\ r.request.handler = "parse_code"
    /\ r.request.body = "code"
    /\ LangNormalized(r.request.detected) = "python"
    /\ ~r.request.code_ok

C11_MalformedSourceNoModel ==
    /\ \A i \in 1..Len(calls) :
         calls[i].error = "SyntaxError" => calls[i].result = ""
    /\ \A i \in 1..Len(responses) :
         Unparseable(responses[i]) =>
            /\ responses[i].error # ""
            /\ responses[i].status = 400
            /\ responses[i].model = ""
            /\ responses[i].diagrams = {}
            /\ responses[i].diagram_error = ""

\* A request with Python code the parser rejects was answered.
C11_Witness ==
    /\ \E i \in 1..Len(responses) : Unparseable(responses[i])
    /\ \E i \in 1..Len(calls) : calls[i].error = "SyntaxError"

\* C12: when one diagram generator raises in a request whose parse succeeded,
\* the response holds the model, the output of every other diagram type, and
\* the error of the one that failed.
DiagramRaised(r) ==
    /\ r.status = 200
    /\ r.request.raises \in {DiagramTypes[i] : i \in 1..Len(DiagramTypes)}

C12_DiagramFailureIsolated ==
    \A i \in 1..Len(responses) :
        DiagramRaised(responses[i]) =>
           /\ responses[i].model # ""
           /\ responses[i].diagrams =
                 {DiagramTypes[k] : k \in 1..Len(DiagramTypes)} \ {responses[i].request.raises}
           /\ responses[i].diagram_error # ""

\* C13: on one CodeParser, whatever calls came before, parse returns for a
\* source the model it returns for that source the first time, on the
\* instance as constructed; and the lists a returned model holds keep the
\* value they were returned with for as long as the parser still holds them.
C13_NoStateAcrossParses ==
    /\ \A i \in 1..Len(returned), j \in 1..Len(returned) :
         (/\ returned[i].raised = ""
          /\ returned[j].raised = ""
          /\ returned[i].source = returned[j].source)
         => returned[i].model = returned[j].model
    /\ \A i \in 1..Len(returned) :
         (returned[i].raised = "" /\ returned[i].generation = generation /\ pc # "visit")
         => returned[i].model = <<ParseResult>>
    /\ \A i \in 1..Len(returned) :
         (returned[i].raised = "" /\ pc = "visit") => returned[i].generation # generation

\* The same source parsed twice with a failing parse and another source in
\* between or before.
C13_Witness ==
    /\ \E i \in 1..Len(returned), j \in 1..Len(returned) :
         /\ i + 1 < j
         /\ returned[i + 1].raised = "SyntaxError"
         /\ returned[i].raised = ""
         /\ returned[j].raised = ""
         /\ returned[i].source = returned[j].source
         /\ returned[i].source # <<>>
         /\ returned[j].model[1].global_variables # <<>>

\* The shape of a graph that any renaming of its nodes preserves: how many
\* nodes, how many of them decisions, how many edges, and for each pair
\* (in-degree, out-degree) whether some node has it.
DegreePairs(g) == {<<InDegree(g, id), OutDegree(g, id)>> : id \in g.ids}
Shape(g) ==
    [nodes |-> Cardinality(g.ids),
     decisions |-> Cardinality(g.decisions),
     edges |-> Len(g.arcs),
     degrees |-> DegreePairs(g)]

\* C14: for every sequence of control_flow entries of a function, the Mermaid
\* flowchart and the SVG flowchart are the same graph up to the names of the
\* nodes: same number of nodes and of decision nodes, same number of edges,
\* same degrees.
C14_BackendsRenderSameGraph ==
    (pc = "done" /\ MermaidDrawn /\ SvgDrawn)
    => Shape(MermaidGraph(mermaid)) = Shape(SvgGraph(svg))

\* C15: the architecture diagram of every model has the MODULE root, and has
\* the Imports, Global Variables and Execution Scope sections whenever the
\* model has at least one import, global variable, execution-scope variable.
Declares(text, id) == \E i \in 1..Len(text) : text[i].to = id /\ text[i].shape # ""

C15_ArchitectureSections ==
    (pc = "done" /\ architecture # <<>>)
    => /\ Declares(architecture, "MODULE")
       /\ imports # <<>> => Declares(architecture, "IMPORTS")
       /\ global_vars # <<>> => Declares(architecture, "GLOBALS")
       /\ execution_scope_vars # <<>> => Declares(architecture, "EXECUTION")

\* C16: inside_name_main is set only while the body of a module-level
\* `if __name__ == "__main__"` is being read, and a module-level assignment
\* outside that body (in the else branch of the guard, or after the guard) is
\* filed as Global, never as ExecutionScope.
C16_MainGuardBodyOnly ==
    /\ (pc = "visit" /\ inside_name_main) => InsideMainBody(stack)
    /\ pc = "done" =>
         \A i \in 1..Len(source) :
            (/\ IsAssignment(source[i])
             /\ source[i].target = "name"
             /\ source[i].scope = "Global")
            => RecordedAs(source[i].line) \subseteq {"Global"}

\* C17: after parse, a call `K()` that stands in a function, K being the name
\* of a class of the source (defined before the call, after it, or around
\* it), is in class_instantiations and not in function_calls.
ClassesOfSource == {source[i].name : i \in {k \in 1..Len(source) : source[k].stmt = "class"}}

C17_InstantiationByName ==
    pc = "done" =>
        \A i \in 1..Len(source) :
            (/\ source[i].stmt = "call"
             /\ source[i].target = "name"
             /\ source[i].function # NoFunction
             /\ source[i].name \in ClassesOfSource)
            => /\ \E k \in 1..Len(class_instantiations) :
                     /\ class_instantiations[k].line = source[i].line
                     /\ class_instantiations[k].class_name = source[i].name
               /\ \A k \in 1..Len(function_calls) :
                     function_calls[k].line # source[i].line

\* C18: after parse, for every two assignments to the same plain name in the
\* body of the same function, a duplicate_variable warning is emitted for
\* that function and name, with the line of the later assignment and the line
\* of the earlier one.
C18_DuplicateLocalWarned ==
    pc = "done" =>
        \A i \in 1..Len(source), j \in 1..Len(source) :
            (/\ i < j
             /\ IsAssignment(source[i]) /\ IsAssignment(source[j])
             /\ source[i].target = "name" /\ source[j].target = "name"
             /\ source[i].scope = "Local" /\ source[j].scope = "Local"
             /\ source[i].name = source[j].name
             /\ source[i].owner_line = source[j].owner_line)
            => \E w \in 1..Len(warnings) :
                  /\ warnings[w].type = "duplicate_variable"
                  /\ warnings[w].name = source[j].name
                  /\ warnings[w].function = source[j].function
                  /\ warnings[w].line = source[j].line
                  /\ warnings[w].related_line < source[j].line

\* C19: after parse, a function name (class name) defined n >= 1 times at top
\* level has exactly n - 1 duplicate_function (duplicate_class) warnings, each
\* with the line of the first top-level definition; whatever nested functions
\* or methods carry the same name.
TopLevel(kind, name) ==
    {i \in 1..Len(source) : /\ source[i].stmt = kind
                            /\ source[i].lex = <<>>
                            /\ source[i].name = name}
DuplicateWarnings(type, name) ==
    {w \in 1..Len(warnings) : warnings[w].type = type /\ warnings[w].name = name}
FirstLine(S) == source[CHOOSE i \in S : \A k \in S : i <= k].line

C19_DuplicateDefinitionWarnings ==
    pc = "done" =>
        \A use \in {<<"def", "duplicate_function">>, <<"class", "duplicate_class">>} :
            \A i \in 1..Len(source) :
                LET tops == TopLevel(use[1], source[i].name)
                    dups == DuplicateWarnings(use[2], source[i].name)
                IN tops # {} =>
                     /\ Cardinality(dups) = Cardinality(tops) - 1
                     /\ \A w \in dups : warnings[w].related_line = FirstLine(tops)

\* C20: in each generator, the first return or break entry of the sorted
\* entries of a function is drawn with an edge to End and ends the loop over
\* the entries: the flowchart is the one of the entries up to and including
\* it, and the node drawn for it is the only one with an edge to End.
Terminators == {i \in 1..Len(FlowOfF) : FlowOfF[i].type \in {"return", "break"}}
FirstTerminator == CHOOSE i \in Terminators : \A k \in Terminators : i <= k
UpToFirstTerminator == SubSeq(FlowOfF, 1, FirstTerminator)
TerminatorText == IF FlowOfF[FirstTerminator].type = "return" THEN "Return" ELSE "Break"

EndsAtTerminator(g) ==
    \A i \in 1..Len(g.arcs) :
        g.arcs[i][2] = g.end
        => /\ g.arcs[i][1] \in DOMAIN g.text
           /\ g.text[g.arcs[i][1]] = TerminatorText

C20_FirstTerminatorEndsProcessing ==
    (pc = "done" /\ Terminators # {}) =>
        /\ MermaidDrawn => /\ mermaid = single_flowchart(UpToFirstTerminator)
                           /\ EndsAtTerminator(MermaidGraph(mermaid))
        /\ SvgDrawn => /\ LET drawn == generate_function_svg(UpToFirstTerminator)
                          IN svg.nodes = drawn.nodes /\ svg.edges = drawn.edges
                       /\ EndsAtTerminator(SvgGraph(svg))

\* The maximal runs of consecutive "call" entries of a sequence of entry
\* types, as the sequence of their lengths.
RECURSIVE CallRuns(_, _, _)
CallRuns(types, i, run) ==
    IF i > Len(types) THEN (IF run > 0 THEN <<run>> ELSE <<>>)
    ELSE IF types[i] = "call" THEN CallRuns(types, i + 1, run + 1)
    ELSE (IF run > 0 THEN <<run>> ELSE <<>>) \o CallRuns(types, i + 1, 0)

RECURSIVE SumSeq(_)
SumSeq(q) == IF q = <<>> THEN 0 ELSE Head(q) + SumSeq(Tail(q))

\* How many nodes of a graph carry the text t, and how many a "more" text.
NodesWithText(g, t) == Cardinality({id \in DOMAIN g.text : g.text[id] = t})
MoreTexts(runs) == {ToString(runs[i] - 4) \o " more calls" :
                      i \in {k \in 1..Len(runs) : runs[k] > 4}}
MoreNodes(g, runs) == {id \in DOMAIN g.text : g.text[id] \in MoreTexts(runs)}

\* C21: in each flowchart, a maximal run of k consecutive call entries is
\* drawn as min(k, 4) call nodes and, when k > 4, one node "k - 4 more".
CallsCoalesced(g, runs) ==
    /\ NodesWithText(g, "Call") = SumSeq([i \in 1..Len(runs) |-> Min(runs[i], 4)])
    /\ Cardinality(MoreNodes(g, runs)) = Cardinality({i \in 1..Len(runs) : runs[i] > 4})

C21_CallRunsCoalesced ==
    pc = "done" =>
        /\ MermaidDrawn => CallsCoalesced(MermaidGraph(mermaid), CallRuns(FlowTypes, 1, 0))
        /\ SvgDrawn => CallsCoalesced(SvgGraph(svg), CallRuns(FlowTypes, 1, 0))

\* The nodes an edge of g leads to from id, and the nodes it comes from.
Next1(g, id) == {g.arcs[i][2] : i \in {k \in 1..Len(g.arcs) : g.arcs[k][1] = id}}
Prev1(g, id) == {g.arcs[i][1] : i \in {k \in 1..Len(g.arcs) : g.arcs[k][2] = id}}
TextOf(g, id) == IF id \in DOMAIN g.text THEN g.text[id] ELSE ""
TryEntries == SelectSeq(FlowOfF, LAMBDA cf : cf.type = "try")
\* The exception types the except clauses of a try declare. The tries of
\* FlowTryShapes with a finally clause are the ones without except clause.
DeclaredTypes(flow) == IF flow.has_finally THEN <<>> ELSE flow.exceptions

\* C22: in each flowchart of a function whose entries are all drawn, every Try
\* node leads to one Try Body node; there is one Except node per declared
\* exception type, entered from a Try Body and leading to an Except Body; and
\* there is one Finally node per try with a finally clause.
TryShape(g) ==
    /\ NodesWithText(g, "Try") = Len(TryEntries)
    /\ \A id \in DOMAIN g.text :
          g.text[id] = "Try" =>
             /\ Cardinality(Next1(g, id)) = 1
             /\ \A b \in Next1(g, id) : TextOf(g, b) = "Try Body"
    /\ NodesWithText(g, "Except")
         = SumSeq([i \in 1..Len(TryEntries) |-> Len(DeclaredTypes(TryEntries[i]))])
    /\ \A id \in DOMAIN g.text :
          g.text[id] = "Except" =>
             /\ \A b \in Prev1(g, id) : TextOf(g, b) = "Try Body"
             /\ \A b \in Next1(g, id) : TextOf(g, b) = "Except Body"
    /\ NodesWithText(g, "Finally")
         = Len(SelectSeq(TryEntries, LAMBDA cf : cf.has_finally))

C22_TryBranches ==
    (pc = "done" /\ \A i \in 1..Len(FlowTypes) : FlowTypes[i] \in {"try", "call", "if"}) =>
        /\ MermaidDrawn => TryShape(MermaidGraph(mermaid))
        /\ SvgDrawn => TryShape(SvgGraph(svg))

\* C23: in each flowchart of a function whose entries are all drawn, every
\* with entry is drawn as three nodes chained Enter -> With Body -> Exit.
WithChain(g) ==
    /\ NodesWithText(g, "Enter") = Len(SelectSeq(FlowTypes, LAMBDA t : t = "with"))
    /\ NodesWithText(g, "With Body") = NodesWithText(g, "Enter")
    /\ NodesWithText(g, "Exit") = NodesWithText(g, "Enter")
    /\ \A id \in DOMAIN g.text :
          g.text[id] = "Enter" =>
             /\ Cardinality(Next1(g, id)) = 1
             /\ \A b \in Next1(g, id) :
                   /\ TextOf(g, b) = "With Body"
                   /\ Cardinality(Next1(g, b)) = 1
                   /\ \A e \in Next1(g, b) : TextOf(g, e) = "Exit"

C23_WithThreeNodes ==
    (pc = "done" /\ \A i \in 1..Len(FlowTypes) : FlowTypes[i] \in {"with", "call", "if"}) =>
        /\ MermaidDrawn => WithChain(MermaidGraph(mermaid))
        /\ SvgDrawn => WithChain(SvgGraph(svg))

\* The node of a drawn SVG flowchart with identifier id.
SvgNodeOf(id) == svg.nodes[CHOOSE i \in 1..Len(svg.nodes) : svg.nodes[i].id = id]
SvgHasNode(id) == \E i \in 1..Len(svg.nodes) : svg.nodes[i].id = id
\* The decision nodes of the for and while loops.
LoopDecisions == {i \in 1..Len(svg.nodes) : /\ svg.nodes[i].type = "decision"
                                            /\ svg.nodes[i].text \in {"loop_", "while_"}}
\* An edge from the body node of a loop to the decision node of that loop.
IsBackEdge(e) ==
    /\ \E i \in LoopDecisions : svg.nodes[i].id = e.to
    /\ e.from = e.to \o "_body"

\* C24: in the SVG flowchart an edge is curved (drawn as a path) exactly when
\* it goes from a loop body to the decision of that loop, every other edge is
\* straight (drawn as a line), and every loop has exactly one back-edge.
C24_CurvedIffBackEdge ==
    SvgDrawn =>
        /\ \A k \in 1..Len(svg.edges) :
              /\ svg.edges[k].type \in {"curved", "straight"}
              /\ svg.edges[k].type = "curved" <=> IsBackEdge(svg.edges[k])
              /\ svg_edge_element(svg.edges[k]) = "path" <=> IsBackEdge(svg.edges[k])
        /\ \A i \in LoopDecisions :
              Cardinality({k \in 1..Len(svg.edges) :
                             /\ svg.edges[k].to = svg.nodes[i].id
                             /\ IsBackEdge(svg.edges[k])}) = 1

\* A flowchart with a for loop, a while loop and an if.
C24_Witness ==
    /\ SvgDrawn
    /\ \E i \in LoopDecisions : svg.nodes[i].text = "loop_"
    /\ \E i \in LoopDecisions : svg.nodes[i].text = "while_"
    /\ \E i \in 1..Len(svg.nodes) : svg.nodes[i].text = "If Body"

\* C25: in the SVG flowchart every edge that leaves a node other than a
\* decision leaves at the bottom, every straight edge arrives at the top, and
\* the two edges that leave a decision (of an if with or without else, of a
\* for, of a while) leave from two different sides.
SvgDecisions == {i \in 1..Len(svg.nodes) : svg.nodes[i].type = "decision"}
EdgesFrom(id) == {k \in 1..Len(svg.edges) : svg.edges[k].from = id}

C25_AnchorsByRole ==
    SvgDrawn =>
        /\ \A k \in 1..Len(svg.edges) :
              /\ SvgNodeOf(svg.edges[k].from).type # "decision"
                    => svg_from_side(svg.edges[k]) = "bottom"
              /\ svg.edges[k].type = "straight" => svg_to_side(svg.edges[k]) = "top"
        /\ \A i \in SvgDecisions :
              \A a \in EdgesFrom(svg.nodes[i].id), b \in EdgesFrom(svg.nodes[i].id) :
                  a # b => svg_from_side(svg.edges[a]) # svg_from_side(svg.edges[b])

\* The context of the visitor: the class (by name and line), the qualified
\* function name, the nesting depth and the two flags.
Context ==
    [class_name |-> IF current_class = <<>> THEN "" ELSE current_class[1].name,
     class_line |-> IF current_class = <<>> THEN 0 ELSE current_class[1].line,
     function |-> current_function, depth |-> nesting_level,
     inside_method |-> inside_method, inside_name_main |-> inside_name_main]
InitialContext ==
    [class_name |-> "", class_line |-> 0, function |-> NoFunction, depth |-> 0,
     inside_method |-> FALSE, inside_name_main |-> FALSE]
\* The context after entering the construct of frame fr from context ctx.
Entered(ctx, fr) ==
    IF fr.node = "FunctionDef"
    THEN IF ctx.class_line # 0
         THEN [ctx EXCEPT !.function = ctx.class_name \o "." \o fr.name,
                          !.depth = @ + 1, !.inside_method = TRUE]
         ELSE [ctx EXCEPT !.function = fr.name, !.depth = @ + 1]
    ELSE IF fr.node = "ClassDef"
    THEN [ctx EXCEPT !.class_name = fr.name, !.class_line = fr.line]
    ELSE [ctx EXCEPT !.inside_name_main = TRUE]
\* The context after entering the first n open constructs from the initial one.
RECURSIVE ContextOf(_, _)
ContextOf(stk, n) == IF n = 0 THEN InitialContext ELSE Entered(ContextOf(stk, n - 1), stk[n])

\* C26: the context is determined by the constructs that are open (entered and
\* not yet left), so leaving a function, method, class or main guard puts the
\* context back to the value it had on entering it; after parse the context
\* is the initial one.
C26_ContextRestored ==
    /\ pc = "visit" => Context = ContextOf(stack, Len(stack))
    /\ pc = "done" => Context = InitialContext

\* A parsed source with a method of a class under the main guard.
C26_Witness ==
    /\ pc = "done"
    /\ \E i \in 1..Len(source) :
          /\ source[i].stmt = "def"
          /\ source[i].lex = <<"MainIf", "ClassDef">>

\* The call edges of the three lists and the 'call' entries of control_flow,
\* each as (owning function, line, callee as written).
CallEdges ==
    [i \in 1..Len(function_calls) |->
        <<function_calls[i].caller, function_calls[i].line, function_calls[i].callee>>]
    \o [i \in 1..Len(method_calls) |->
        <<method_calls[i].caller, method_calls[i].line, "self." \o method_calls[i].method>>]
    \o [i \in 1..Len(class_instantiations) |->
        <<class_instantiations[i].caller, class_instantiations[i].line,
          class_instantiations[i].class_name>>]
CallEvents ==
    LET ev == SelectSeq(control_flow, LAMBDA cf : cf.type = "call")
    IN [i \in 1..Len(ev) |-> <<ev[i].function, ev[i].line, ev[i].call_name>>]
CountWhere(q, Test(_)) == Cardinality({i \in 1..Len(q) : Test(q[i])})
\* No entry and no event stands on the line of a call made outside a function.
ModuleCallsSilent ==
    \A i \in 1..Len(source) :
        (source[i].stmt = "call" /\ source[i].function = NoFunction)
        => /\ CountWhere(CallEdges, LAMBDA e : e[2] = source[i].line) = 0
           /\ CountWhere(CallEvents, LAMBDA e : e[2] = source[i].line) = 0

\* C27 as stated: after parse every call edge has exactly one 'call' event
\* with its function and line, every 'call' event has exactly one edge with
\* its function and line, and a call outside any function leaves neither.
C27_AsStated ==
    pc = "done" =>
        /\ \A k \in 1..Len(CallEdges) :
              CountWhere(CallEvents, LAMBDA e : e[1] = CallEdges[k][1]
                                                /\ e[2] = CallEdges[k][2]) = 1
        /\ \A k \in 1..Len(CallEvents) :
              CountWhere(CallEdges, LAMBDA e : e[1] = CallEvents[k][1]
                                               /\ e[2] = CallEvents[k][2]) = 1
        /\ ModuleCallsSilent

\* C27, amended: edges and events correspond one to one by function, line and
\* callee: for each such triple there are as many edges in the three lists
\* together as 'call' events (several calls on one line give several of
\* each); a call outside any function leaves neither.
C27_CallEdgesMatchEvents ==
    pc = "done" =>
        /\ Len(CallEdges) = Len(CallEvents)
        /\ \A k \in 1..Len(CallEdges) :
              CountWhere(CallEvents, LAMBDA e : e = CallEdges[k])
                = CountWhere(CallEdges, LAMBDA e : e = CallEdges[k])
        /\ \A k \in 1..Len(CallEvents) :
              CountWhere(CallEdges, LAMBDA e : e = CallEvents[k])
                = CountWhere(CallEvents, LAMBDA e : e = CallEvents[k])
        /\ ModuleCallsSilent

\* A parsed source with two calls on one line of a function, one of them an
\* instantiation, and a call at module level.
C27_Witness ==
    /\ pc = "done"
    /\ \E a \in 1..Len(CallEdges), b \in 1..Len(CallEdges) :
          a # b /\ CallEdges[a][1] = CallEdges[b][1] /\ CallEdges[a][2] = CallEdges[b][2]
    /\ class_instantiations # <<>>
    /\ \E i \in 1..Len(source) : source[i].stmt = "call" /\ source[i].function = NoFunction

\* No two entries of a list have the same key.
UniqueBy(lst, Key(_)) ==
    \A i \in 1..Len(lst), j \in 1..Len(lst) : i # j => Key(lst[i]) # Key(lst[j])
NameKey(v) == v.name
NameFunctionKey(v) == <<v.name, v.function>>
VariablesUnique ==
    /\ UniqueBy(global_vars, NameKey)
    /\ UniqueBy(execution_scope_vars, NameKey)
    /\ UniqueBy(local_vars, NameFunctionKey)
    /\ \A k \in 1..Len(classes) :
          /\ UniqueBy(classes[k].class_variables, NameKey)
          /\ UniqueBy(classes[k].instance_variables, NameKey)
\* One step of the visitor keeps every entry of the list, and adds at most one
\* entry, of a key the list does not have, on the line being read.
KeepsFirst(before, after, Key(_)) ==
    \/ after = before
    \/ /\ Len(after) = Len(before) + 1
       /\ SubSeq(after, 1, Len(before)) = before
       /\ after[Len(after)].line = line
       /\ \A i \in 1..Len(before) : Key(before[i]) # Key(after[Len(after)])
VariablesKeepFirst ==
    /\ KeepsFirst(global_vars, global_vars', NameKey)
    /\ KeepsFirst(execution_scope_vars, execution_scope_vars', NameKey)
    /\ KeepsFirst(local_vars, local_vars', NameFunctionKey)
    /\ (current_class # <<>> /\ stack' = stack) =>
          /\ current_class' # <<>>
          /\ KeepsFirst(current_class[1].class_variables,
                        current_class'[1].class_variables, NameKey)
          /\ KeepsFirst(current_class[1].instance_variables,
                        current_class'[1].instance_variables, NameKey)
    /\ \/ classes' = classes
       \/ current_class # <<>> /\ classes' = Append(classes, current_class[1])

StraightEdgesDescend ==
    \A k \in 1..Len(svg.edges) :
        (svg.edges[k].type = "straight"
         /\ SvgHasNode(svg.edges[k].from) /\ SvgHasNode(svg.edges[k].to))
        => SvgNodeOf(svg.edges[k].to).y > SvgNodeOf(svg.edges[k].from).y
\* No two nodes of the SVG graph stand at one position.
PositionsDistinct ==
    \A i \in 1..Len(svg.nodes), j \in 1..Len(svg.nodes) :
        i # j => <<svg.nodes[i].x, svg.nodes[i].y>> # <<svg.nodes[j].x, svg.nodes[j].y>>

\* C29: in the SVG flowchart the target of every straight edge has a strictly
\* greater y than its source, and no two nodes have the same (x, y).
C29_DownwardAndDistinct ==
    SvgDrawn => StraightEdgesDescend /\ PositionsDistinct

\* A flowchart with the two arms of an if-else side by side, a loop with its
\* back-edge and a try with its handler.
C29_Witness ==
    /\ SvgDrawn
    /\ \E i \in 1..Len(svg.nodes), j \in 1..Len(svg.nodes) :
          /\ svg.nodes[i].text = "If Body" /\ svg.nodes[j].text = "Else Body"
          /\ svg.nodes[i].y = svg.nodes[j].y
    /\ \E k \in 1..Len(svg.edges) : svg.edges[k].type = "curved"
    /\ \E i \in 1..Len(svg.nodes) : svg.nodes[i].text = "Try Body"

\* Every identifier of the Mermaid text is declared (given a shape and a text)
\* by exactly one statement, and every node dict of the SVG graph has an id
\* of its own; the ends of the edges are such identifiers.
MermaidIdsDenoteOneNode(text) ==
    LET declared == Declarations(text)
    IN \A id \in MermaidGraph(text).ids :
          Cardinality({i \in 1..Len(declared) : declared[i].to = id}) = 1
SvgIdsDenoteOneNode(drawn) ==
    \A id \in SvgGraph(drawn).ids :
        Cardinality({i \in 1..Len(drawn.nodes) : drawn.nodes[i].id = id}) = 1

\* C30: within one flowchart every node identifier denotes exactly one node,
\* also when more than four calls stand between two structural entries: the
\* identifiers built from the node counter never collide with each other or
\* with Start and END.
C30_NodeIdsUnique ==
    /\ MermaidDrawn => MermaidIdsDenoteOneNode(mermaid)
    /\ SvgDrawn => SvgIdsDenoteOneNode(svg)

\* Both flowcharts of a function with a run of more than four calls followed
\* by a loop or a with block and further calls.
C30_Witness ==
    /\ MermaidDrawn
    /\ SvgDrawn
    /\ \E i \in 1..Len(FlowTypes) :
          /\ i > 5
          /\ FlowTypes[i] \in {"for", "with"}
          /\ \A k \in (i - 5)..(i - 1) : FlowTypes[k] = "call"
          /\ i < Len(FlowTypes)
          /\ FlowTypes[i + 1] = "call"
    /\ \E id \in MermaidGraph(mermaid).ids : MermaidGraph(mermaid).text[id] = "1 more calls"
====
